---- MODULE Spec2Model ----
(***************************************************************************)
(* Verification model of the pulsar native foundations library:            *)
(*   DAGGER  (src/native/dagger/dagger.c, src/native/include/dagger.h)     *)
(*   Tablet  (src/native/weave/weave.c)                                    *)
(*   ZORYA-INI interpolation (src/native/ini/zorya_ini.c)                  *)
(*   ORDINAL build DAG (src/native/ordinal/ordinal.c)                      *)
(*   Arena   (src/native/include/zorya_arena.h)                            *)
(*   WEAVE   (src/native/weave/weave.c)                                    *)
(* Each component has its own specification (SpecDagger, SpecTablet,       *)
(* SpecIni, SpecOrdinal, ...); the variables of the other components stay  *)
(* at their idle value.                                                    *)
(***************************************************************************)
EXTENDS Integers, Sequences, FiniteSets, TLC

VARIABLES
    T,          \* DaggerTable: entries, capacity, mask, count, statistics
    ref,        \* ghost: the map the calls made so far describe (key -> value)
    last,       \* ghost: the last DAGGER / Tablet call and what it returned
    tablet,     \* Tablet: count, memory and its arena's allocation count
    interned,   \* ghost: string -> the first non-NULL pointer tablet_intern gave
    weave,      \* the Weave objects of a client and what its last call returned
    arena,      \* Arena: its chunks, counters, the binding's temporary scope
    cord,       \* wtc_interpolate: the template, the lookup and the output
    ord,        \* Ordinal: targets, config, result
    fs,         \* the file system: path -> mtime (0: stat fails, no such file)
    stack,      \* the build_target calls in progress, the innermost one last
    run,        \* ordinal_run: where it is, what build_target / it returned
    executed,   \* ghost: the commands handed to system() in this run, in order
    decided,    \* ghost: per target, what needs_rebuild answered in this run
    ini,        \* ZoryaIni: the entry table, dagger_foreach's slot, the code
    icalls,     \* the resolve_string / parse_buffer calls in progress, innermost last
    ighost      \* ghost: the buffer loaded, the first object's outcome, depth hit

(***************************************************************************)
(* DAGGER: constants of dagger.h                                           *)
(***************************************************************************)
DAGGER_PSL_THRESHOLD == 16
DAGGER_MAX_CUCKOO_CYCLES == 500
DAGGER_INITIAL_CAPACITY == 64
DAGGER_LOAD_FACTOR_PERCENT == 75
DAGGER_MIN_CAPACITY == 16
DAGGER_GROWTH_FACTOR == 2

\* dagger_result_t
DAGGER_OK == "DAGGER_OK"
DAGGER_NOT_FOUND == "DAGGER_NOT_FOUND"
DAGGER_EXISTS == "DAGGER_EXISTS"
DAGGER_ERROR_NOMEM == "DAGGER_ERROR_NOMEM"
DAGGER_ERROR_FULL == "DAGGER_ERROR_FULL"
DAGGER_ERROR_INVALID == "DAGGER_ERROR_INVALID"

NULL == 0

(***************************************************************************)
(* Keys.  A key is a byte string, named here by a number; key 0 is the     *)
(* empty byte string.  The keys are chosen by their slots in a table of    *)
(* 32 slots:                                                               *)
(*   1 .. NumFill           primary slot 0                                 *)
(*   NumFill+1              primary slot 0, alternate slot 20              *)
(*   NumFill+2, NumFill+3   primary slot 19                                *)
(* The far keys are chosen by their slots in a table of 1024 slots:        *)
(*   FarFill                primary slot 0                                 *)
(*   FarX                   primary slot 0, alternate slot RunSlot         *)
(*   FarRun                 primary slots RunSlot, RunSlot + 1, ...        *)
(*   FarY                   primary slot 0, alternate slot RunSlot; in a   *)
(*                          table of 2048 slots its alternate slot is      *)
(*                          1024 + RunSlot                                 *)
(***************************************************************************)
NumFill == 17
MaxValue == 2
RunLen == 501

FarBase == 1000
RunBase == 2000
RunSlot == 40
FarFill == (FarBase + 1)..(FarBase + NumFill)
FarX == FarBase + NumFill + 1
FarRun == RunBase..(RunBase + RunLen - 1)
FarY == FarX + 1

EmptyKey == 0
FillKeys == 1..NumFill
FreeKeys == (NumFill + 1)..(NumFill + 3)
Keys == FillKeys \cup FreeKeys
Values == 1..MaxValue

KeyLen(key) == IF key = EmptyKey THEN 0 ELSE 1

\* nxh64(key, key_len, seed_primary): distinct keys have distinct hashes; the
\* low bits are the slots listed above.
nxh64(key) ==
    IF key >= RunBase THEN 4096 * key + RunSlot + (key - RunBase)
    ELSE IF key > FarBase THEN 4096 * key
    ELSE IF key <= NumFill + 1 THEN 64 * key ELSE 64 * key + 19

\* nxh64_alt(key, key_len, seed_alternate)
nxh64_alt(key) ==
    IF key = FarX THEN 4096 * key + RunSlot
    ELSE IF key = FarY THEN 4096 * key + 1024 + RunSlot
    ELSE IF key > FarBase THEN 4096 * key + 700
    ELSE IF key <= NumFill THEN 64 * key + 24 + (key % 4)
    ELSE IF key = NumFill + 1 THEN 64 * key + 20
    ELSE 64 * key + 5

\* dagger_key_eq_default: same length and same bytes
dagger_key_eq_default(k1, k1_len, k2, k2_len) ==
    k1_len = k2_len /\ k1 = k2

RECURSIVE Pow2AtLeast(_, _)
Pow2AtLeast(p, n) == IF p >= n THEN p ELSE Pow2AtLeast(2 * p, n)

dagger_next_pow2(n) == IF n = 0 THEN 1 ELSE Pow2AtLeast(1, n)

\* hash & T->mask, with mask = capacity - 1 and capacity a power of two
dagger_slot(tab, hash) == hash % (tab.mask + 1)

\* a zeroed DaggerEntry (calloc / memset 0)
EmptyEntry ==
    [hash_primary |-> 0, hash_alternate |-> 0, key |-> NULL, value |-> NULL,
     key_len |-> 0, psl |-> 0, occupied |-> FALSE, in_cuckoo |-> FALSE]

dagger_create(initial_capacity) ==
    LET c0 == IF initial_capacity < DAGGER_MIN_CAPACITY
              THEN DAGGER_INITIAL_CAPACITY ELSE initial_capacity
        cap == dagger_next_pow2(c0)
    IN [entries |-> [i \in 0..(cap - 1) |-> EmptyEntry],
        capacity |-> cap, mask |-> cap - 1, count |-> 0,
        max_psl |-> 0, cuckoo_count |-> 0, resize_count |-> 0,
        value_destroy |-> FALSE, destroyed |-> <<>>]

\* dagger_set_value_destroy.  value_destroy says that a destructor is set
\* (the pointer is not NULL); destroyed lists the values it was called with
dagger_set_value_destroy(tab, destroy_fn) ==
    [tab EXCEPT !.value_destroy = destroy_fn]

\* if (T->value_destroy != NULL && value != NULL) T->value_destroy(value)
value_destroy_call(tab, value) ==
    IF tab.value_destroy /\ value # NULL
    THEN [tab EXCEPT !.destroyed = Append(@, value)]
    ELSE tab

(***************************************************************************)
(* dagger_insert_internal: the probe loop.  a is the call's arguments      *)
(* (key, key_len, value, h1, h2, allow_replace); entry is the candidate    *)
(* being carried, which after a Robin Hood swap is a displaced entry.      *)
(* insert_iter is one iteration of the loop; st.done says that it          *)
(* returned, with st.r.  The iterations are evaluated LoopChunk at a time. *)
(* An intermediate result that is used more than once is bound by          *)
(* The({ ... : s \in {result} }), so that it is computed once.             *)
(***************************************************************************)
The(S) == CHOOSE x \in S : TRUE

LoopChunk == 64

insert_iter(a, st) ==
    LET tab == st.T
        entry == st.entry
        idx == st.idx
        cuckoo_cycles == st.cuckoo_cycles
        in_cuckoo_phase == st.in_cuckoo_phase
        slot == tab.entries[idx] IN
    IF ~slot.occupied THEN
        [st EXCEPT
           !.T = [tab EXCEPT
                  !.entries[idx] = [entry EXCEPT !.in_cuckoo = in_cuckoo_phase],
                  !.count = @ + 1,
                  !.cuckoo_count = IF in_cuckoo_phase THEN @ + 1 ELSE @,
                  !.max_psl = IF entry.psl > @ THEN entry.psl ELSE @],
           !.done = TRUE, !.r = DAGGER_OK]
    ELSE IF /\ slot.hash_primary = a.h1
            /\ slot.key_len = a.key_len
            /\ dagger_key_eq_default(slot.key, slot.key_len, a.key, a.key_len)
    THEN
        IF a.allow_replace
        THEN [st EXCEPT !.T = [value_destroy_call(tab, slot.value)
                                   EXCEPT !.entries[idx].key = a.key,
                                          !.entries[idx].key_len = a.key_len,
                                          !.entries[idx].value = a.value],
                        !.done = TRUE, !.r = DAGGER_OK]
        ELSE [st EXCEPT !.done = TRUE, !.r = DAGGER_EXISTS]
    ELSE
        LET swap == entry.psl > slot.psl
            tab1 == IF swap
                    THEN [tab EXCEPT !.entries[idx] =
                              [entry EXCEPT !.in_cuckoo = in_cuckoo_phase]]
                    ELSE tab
            e1 == IF swap THEN slot ELSE entry
            e2 == [e1 EXCEPT !.psl = (@ + 1) % 256]      \* uint8_t psl
            idx2 == (idx + 1) % (tab.mask + 1)
            switch == ~in_cuckoo_phase /\ e2.psl > DAGGER_PSL_THRESHOLD
            e3 == IF switch THEN [e2 EXCEPT !.psl = 0] ELSE e2
            idx3 == IF switch THEN dagger_slot(tab, e2.hash_alternate) ELSE idx2
            phase3 == in_cuckoo_phase \/ switch
            cycles3 == IF phase3
                       THEN (IF switch THEN 0 ELSE cuckoo_cycles) + 1
                       ELSE cuckoo_cycles
        IN IF phase3 /\ cycles3 > DAGGER_MAX_CUCKOO_CYCLES
           THEN [st EXCEPT !.T = tab1, !.done = TRUE, !.r = DAGGER_ERROR_FULL]
           ELSE [T |-> tab1, entry |-> e3, idx |-> idx3, cuckoo_cycles |-> cycles3,
                 in_cuckoo_phase |-> phase3, done |-> FALSE, r |-> DAGGER_OK]

\* up to n iterations of the loop
RECURSIVE insert_iters(_, _, _)
insert_iters(a, st, n) ==
    The({ IF s.done THEN s
          ELSE IF n <= 1 THEN insert_iter(a, s)
          ELSE insert_iters(a, insert_iters(a, s, n \div 2), n - (n \div 2))
          : s \in {st} })

RECURSIVE insert_loop(_, _, _, _, _, _)
insert_loop(tab, a, entry, idx, cuckoo_cycles, in_cuckoo_phase) ==
    The({ IF st.done THEN [T |-> st.T, r |-> st.r]
          ELSE insert_loop(st.T, a, st.entry, st.idx, st.cuckoo_cycles,
                           st.in_cuckoo_phase)
          : st \in { insert_iters(a, [T |-> tab, entry |-> entry, idx |-> idx,
                                      cuckoo_cycles |-> cuckoo_cycles,
                                      in_cuckoo_phase |-> in_cuckoo_phase,
                                      done |-> FALSE, r |-> DAGGER_OK],
                                  LoopChunk) } })

dagger_insert_internal(tab, key, key_len, value, h1, h2, allow_replace) ==
    insert_loop(tab,
                [key |-> key, key_len |-> key_len, value |-> value,
                 h1 |-> h1, h2 |-> h2, allow_replace |-> allow_replace],
                [hash_primary |-> h1, hash_alternate |-> h2, key |-> key,
                 value |-> value, key_len |-> key_len, psl |-> 0,
                 occupied |-> TRUE, in_cuckoo |-> FALSE],
                dagger_slot(tab, h1), 0, FALSE)

(***************************************************************************)
(* dagger_resize.  calloc_ok is the outcome of the calloc of the new array *)
(***************************************************************************)
\* the re-insertion of old_entries[i]; res is the loop's outcome so far
reinsert_one(res, old_entries, old_capacity, i) ==
    IF old_entries[i].occupied THEN
        The({ IF ins.r # DAGGER_OK
              THEN [T |-> [ins.T EXCEPT !.entries = old_entries,
                                        !.capacity = old_capacity,
                                        !.mask = old_capacity - 1],
                    r |-> ins.r]
              ELSE ins
              : ins \in { LET o == old_entries[i]
                          IN dagger_insert_internal(res.T, o.key, o.key_len,
                                 o.value, o.hash_primary, o.hash_alternate,
                                 TRUE) } })
    ELSE res

\* the re-insertion loop over the slots lo .. hi - 1, left at the first failure
RECURSIVE reinsert_range(_, _, _, _, _)
reinsert_range(res, old_entries, old_capacity, lo, hi) ==
    The({ IF s.r # DAGGER_OK \/ lo >= hi THEN s
          ELSE IF hi = lo + 1 THEN reinsert_one(s, old_entries, old_capacity, lo)
          ELSE LET mid == (lo + hi) \div 2
               IN reinsert_range(reinsert_range(s, old_entries, old_capacity, lo, mid),
                                 old_entries, old_capacity, mid, hi)
          : s \in {res} })

resize_reinsert(tab, old_entries, old_capacity, i) ==
    The({ reinsert_range([T |-> tab, r |-> DAGGER_OK], old, old_capacity,
                         i, old_capacity)
          : old \in {old_entries} })

dagger_resize(tab, new_capacity, calloc_ok) ==
    LET c0 == dagger_next_pow2(new_capacity)
        cap == IF c0 < DAGGER_MIN_CAPACITY THEN DAGGER_MIN_CAPACITY ELSE c0
    IN IF ~calloc_ok THEN [T |-> tab, r |-> DAGGER_ERROR_NOMEM]
       ELSE The({ resize_reinsert(
                    [t EXCEPT !.entries = [i \in 0..(cap - 1) |-> EmptyEntry],
                              !.capacity = cap, !.mask = cap - 1, !.count = 0,
                              !.max_psl = 0, !.cuckoo_count = 0,
                              !.resize_count = @ + 1],
                    t.entries, t.capacity, 0)
                  : t \in {tab} })

(***************************************************************************)
(* dagger_set.  calloc1 / calloc2: outcomes of the two possible resizes    *)
(***************************************************************************)
dagger_set(tab, key, key_len, value, replace, calloc1, calloc2) ==
    IF key_len = 0 THEN [T |-> tab, r |-> DAGGER_ERROR_INVALID]
    ELSE
    LET threshold == (tab.capacity * DAGGER_LOAD_FACTOR_PERCENT) \div 100
        h1 == nxh64(key)
        h2 == nxh64_alt(key)
    IN The({
       IF grown.r # DAGGER_OK THEN grown
       ELSE The({
          IF res.r = DAGGER_ERROR_FULL
          THEN The({ IF again.r # DAGGER_OK THEN again
                     ELSE dagger_insert_internal(again.T, key, key_len, value,
                                                 h1, h2, replace)
                     : again \in { dagger_resize(res.T,
                                       res.T.capacity * DAGGER_GROWTH_FACTOR,
                                       calloc2) } })
          ELSE res
          : res \in { dagger_insert_internal(grown.T, key, key_len, value,
                                             h1, h2, replace) } })
       : grown \in { IF tab.count >= threshold
                     THEN dagger_resize(tab, tab.capacity * DAGGER_GROWTH_FACTOR,
                                        calloc1)
                     ELSE [T |-> tab, r |-> DAGGER_OK] } })

(***************************************************************************)
(* dagger_get: result, value and the number of slots examined              *)
(***************************************************************************)
RECURSIVE get_phase2(_, _, _, _, _)
get_phase2(tab, key, idx, i, probes0) ==
    IF i > DAGGER_PSL_THRESHOLD
    THEN [r |-> DAGGER_NOT_FOUND, value |-> NULL, probes |-> probes0]
    ELSE
    LET slot == tab.entries[idx]
        probes == probes0 + 1
    IN IF ~slot.occupied
       THEN [r |-> DAGGER_NOT_FOUND, value |-> NULL, probes |-> probes]
       ELSE IF /\ slot.in_cuckoo
               /\ slot.hash_alternate = nxh64_alt(key)
               /\ slot.key_len = KeyLen(key)
               /\ dagger_key_eq_default(slot.key, slot.key_len, key, KeyLen(key))
       THEN [r |-> DAGGER_OK, value |-> slot.value, probes |-> probes]
       ELSE get_phase2(tab, key, (idx + 1) % (tab.mask + 1), i + 1, probes)

RECURSIVE get_phase1(_, _, _, _)
get_phase1(tab, key, idx, probes0) ==
    LET slot == tab.entries[idx]
        probes == probes0 + 1
    IN IF ~slot.occupied
       THEN [r |-> DAGGER_NOT_FOUND, value |-> NULL, probes |-> probes]
       ELSE IF /\ slot.hash_primary = nxh64(key)
               /\ slot.key_len = KeyLen(key)
               /\ dagger_key_eq_default(slot.key, slot.key_len, key, KeyLen(key))
       THEN [r |-> DAGGER_OK, value |-> slot.value, probes |-> probes]
       ELSE IF slot.psl < probes - 1 \/ probes > DAGGER_PSL_THRESHOLD + 1
       THEN get_phase2(tab, key, dagger_slot(tab, nxh64_alt(key)), 0, probes)
       ELSE get_phase1(tab, key, (idx + 1) % (tab.mask + 1), probes)

dagger_get(tab, key, key_len) ==
    IF key_len = 0
    THEN [r |-> DAGGER_ERROR_INVALID, value |-> NULL, probes |-> 0]
    ELSE get_phase1(tab, key, dagger_slot(tab, nxh64(key)), 0)

(***************************************************************************)
(* dagger_remove                                                           *)
(***************************************************************************)
\* Phase 1 of the search: while (probes <= DAGGER_PSL_THRESHOLD)
RECURSIVE remove_phase1(_, _, _, _)
remove_phase1(tab, key, idx, probes0) ==
    IF ~(probes0 <= DAGGER_PSL_THRESHOLD)
    THEN [found |-> FALSE, in_cuckoo |-> FALSE, idx |-> idx]
    ELSE
    LET slot == tab.entries[idx]
        probes == probes0 + 1
    IN IF ~slot.occupied
       THEN [found |-> FALSE, in_cuckoo |-> FALSE, idx |-> idx]
       ELSE IF /\ slot.hash_primary = nxh64(key)
               /\ slot.key_len = KeyLen(key)
               /\ dagger_key_eq_default(slot.key, slot.key_len, key, KeyLen(key))
       THEN [found |-> TRUE, in_cuckoo |-> slot.in_cuckoo, idx |-> idx]
       ELSE IF slot.psl < probes - 1
       THEN [found |-> FALSE, in_cuckoo |-> FALSE, idx |-> idx]
       ELSE remove_phase1(tab, key, (idx + 1) % (tab.mask + 1), probes)

\* Phase 2 of the search: the alternate location
RECURSIVE remove_phase2(_, _, _, _)
remove_phase2(tab, key, idx, i) ==
    IF i > DAGGER_PSL_THRESHOLD
    THEN [found |-> FALSE, in_cuckoo |-> FALSE, idx |-> idx]
    ELSE
    LET slot == tab.entries[idx]
    IN IF ~slot.occupied
       THEN [found |-> FALSE, in_cuckoo |-> FALSE, idx |-> idx]
       ELSE IF /\ slot.in_cuckoo
               /\ slot.hash_alternate = nxh64_alt(key)
               /\ slot.key_len = KeyLen(key)
               /\ dagger_key_eq_default(slot.key, slot.key_len, key, KeyLen(key))
       THEN [found |-> TRUE, in_cuckoo |-> TRUE, idx |-> idx]
       ELSE remove_phase2(tab, key, (idx + 1) % (tab.mask + 1), i + 1)

\* Backward shift deletion from the emptied slot idx
RECURSIVE backward_shift(_, _)
backward_shift(tab, idx) ==
    LET next_idx == (idx + 1) % (tab.mask + 1)
        nxt == tab.entries[next_idx]
    IN IF nxt.occupied /\ nxt.psl > 0
       THEN backward_shift(
                [tab EXCEPT !.entries[idx] = [nxt EXCEPT !.psl = @ - 1],
                            !.entries[next_idx] = EmptyEntry],
                next_idx)
       ELSE tab

dagger_remove(tab, key, key_len) ==
    IF key_len = 0 THEN [T |-> tab, r |-> DAGGER_ERROR_INVALID]
    ELSE
    LET p1 == remove_phase1(tab, key, dagger_slot(tab, nxh64(key)), 0)
        hit == IF p1.found THEN p1
               ELSE remove_phase2(tab, key, dagger_slot(tab, nxh64_alt(key)), 0)
    IN IF ~hit.found THEN [T |-> tab, r |-> DAGGER_NOT_FOUND]
       ELSE [T |-> backward_shift(
                       [value_destroy_call(tab, tab.entries[hit.idx].value)
                             EXCEPT !.entries[hit.idx] = EmptyEntry,
                                   !.count = @ - 1,
                                   !.cuckoo_count = IF hit.in_cuckoo THEN @ - 1 ELSE @],
                       hit.idx),
             r |-> DAGGER_OK]

(***************************************************************************)
(* DAGGER: the calls a client makes                                        *)
(***************************************************************************)
InitialCapacities == {16, 32}

NoValue == NULL

\* The calls a client makes: it inserts the fill keys in increasing order and
\* keeps them, and works with the free keys once the fill keys are in.
MaySet(key, value) ==
    IF key \in FreeKeys THEN ref[NumFill] # NoValue
    ELSE IF ref[key] # NoValue \/ value # 1 THEN FALSE
    ELSE IF key = 1 THEN TRUE
    ELSE ref[key - 1] # NoValue

IdleLast == [op |-> "none", key |-> NULL, r |-> DAGGER_OK, value |-> NULL, probes |-> 0]

IdleTablet == [count |-> 0, memory |-> 0, alloc_count |-> 0]
IdleInterned == [s \in Keys \cup {EmptyKey} |-> NULL]

\* The variables of the other components and their idle values
dtvars == <<T, ref, last, tablet, interned, weave, arena, cord>>
ovars == <<ord, fs, stack, run, executed, decided>>
ivars == <<ini, icalls, ighost>>

OrdinalIdle ==
    /\ ord = NULL
    /\ fs = NULL
    /\ stack = <<>>
    /\ run = NULL
    /\ executed = <<>>
    /\ decided = NULL

IniIdle == ini = NULL /\ icalls = <<>> /\ ighost = NULL

DaggerInit ==
    /\ OrdinalIdle
    /\ IniIdle
    /\ \E c \in InitialCapacities : T = dagger_create(c)
    /\ ref = [k \in Keys |-> NoValue]
    /\ last = IdleLast
    /\ tablet = IdleTablet
    /\ interned = IdleInterned /\ weave = NULL /\ arena = NULL /\ cord = NULL

\* dagger_set(T, key, 1, value, replace); the allocations succeed
DaggerSet(key, value, replace) ==
    /\ MaySet(key, value)
    /\ LET res == dagger_set(T, key, KeyLen(key), value, replace, TRUE, TRUE)
       IN /\ T' = res.T
          /\ ref' = IF res.r = DAGGER_OK THEN [ref EXCEPT ![key] = value] ELSE ref
          /\ last' = [op |-> "set", key |-> key, r |-> res.r, value |-> value,
                      probes |-> 0]
    /\ UNCHANGED <<tablet, interned, weave, arena, cord, ovars, ivars>>

\* dagger_get(T, key, 1, &value)
DaggerGet(key) ==
    /\ key \in FreeKeys
    /\ LET res == dagger_get(T, key, KeyLen(key))
       IN last' = [op |-> "get", key |-> key, r |-> res.r, value |-> res.value,
                   probes |-> res.probes]
    /\ UNCHANGED <<T, ref, tablet, interned, weave, arena, cord, ovars, ivars>>

\* dagger_remove(T, key, 1)
DaggerRemove(key) ==
    /\ key \in FreeKeys
    /\ LET res == dagger_remove(T, key, KeyLen(key))
       IN /\ T' = res.T
          /\ ref' = [ref EXCEPT ![key] = NoValue]
          /\ last' = [op |-> "remove", key |-> key, r |-> res.r, value |-> NULL,
                      probes |-> 0]
    /\ UNCHANGED <<tablet, interned, weave, arena, cord, ovars, ivars>>

dvars == <<T, ref, last, tablet, interned, weave, arena, cord, ovars, ivars>>

DaggerNext ==
    \/ \E key \in Keys, value \in Values : DaggerSet(key, value, TRUE)
    \/ \E key \in Keys : DaggerGet(key)
    \/ \E key \in Keys : DaggerRemove(key)

SpecDagger == DaggerInit /\ [][DaggerNext]_dvars

(***************************************************************************)
(* C1: DAGGER behaves like a map.  In every state, for every key,          *)
(* dagger_get returns OK with the value of the last successful set of the  *)
(* key since its last remove, and NOT_FOUND when there is none.            *)
(***************************************************************************)
C1_MapSemantics ==
    \A key \in Keys :
        LET g == dagger_get(T, key, KeyLen(key))
        IN IF ref[key] = NoValue
           THEN g.r = DAGGER_NOT_FOUND
           ELSE g.r = DAGGER_OK /\ g.value = ref[key]

(***************************************************************************)
(* Tablet (weave.c): the pool is the DaggerTable T, keyed by the string's  *)
(* bytes, with the interned Weave's address as value.  The address of an   *)
(* interned Weave is the ordinal of its arena allocation: arena_alloc      *)
(* returns a fresh region on every call that succeeds.                     *)
(***************************************************************************)
sizeof_Weave == 24
MaxAllocs == 21

Strings == Keys \cup {EmptyKey}

\* WEAVE_ALIGN_UP(sizeof(Weave) + cap + 1, 8)
weave_alloc_size(cap) == ((sizeof_Weave + cap + 1 + 7) \div 8) * 8

\* tablet_intern_len(T, s, len).  arena_ok: arena_alloc succeeds;
\* calloc_ok: the pool's resize, if any, gets its memory.
\* Result: the new tablet, the new pool, and the pointer returned.
tablet_intern_len(tb, pool, s, len, arena_ok, calloc_ok) ==
    LET found == dagger_get(pool, s, len)
    IN IF found.r = DAGGER_OK /\ found.value # NULL
       THEN [tablet |-> tb, pool |-> pool, w |-> found.value]
       ELSE IF ~arena_ok
       THEN [tablet |-> tb, pool |-> pool, w |-> NULL]
       ELSE
       LET w == tb.alloc_count + 1
           tb1 == [tb EXCEPT !.alloc_count = @ + 1]
           res == dagger_set(pool, s, len, w, FALSE, calloc_ok, calloc_ok)
       IN IF res.r # DAGGER_OK
          THEN [tablet |-> tb1, pool |-> res.T, w |-> NULL]
          ELSE [tablet |-> [tb1 EXCEPT !.count = @ + 1,
                                       !.memory = @ + weave_alloc_size(len)],
                pool |-> res.T, w |-> w]

\* tablet_lookup_len(T, s, len)
tablet_lookup_len(pool, s, len) ==
    LET found == dagger_get(pool, s, len)
    IN IF found.r = DAGGER_OK /\ found.value # NULL THEN found.value ELSE NULL

\* tablet_create_sized(initial_buckets)
TabletInit ==
    /\ OrdinalIdle
    /\ IniIdle
    /\ \E c \in InitialCapacities : T = dagger_create(c)
    /\ tablet = IdleTablet
    /\ interned = IdleInterned /\ weave = NULL /\ arena = NULL /\ cord = NULL
    /\ ref = [k \in Keys |-> NoValue]
    /\ last = IdleLast

\* The strings a client interns: the fill strings in increasing order, then any
MayIntern(s) ==
    IF s \in FillKeys /\ interned[s] = NULL
    THEN (IF s = 1 THEN TRUE ELSE interned[s - 1] # NULL)
    ELSE interned[NumFill] # NULL

\* tablet_intern_len(T, s, len) with memory available (mem_ok) or not
TabletIntern(s, mem_ok) ==
    /\ MayIntern(s)
    /\ tablet.alloc_count < MaxAllocs
    /\ LET res == tablet_intern_len(tablet, T, s, KeyLen(s), mem_ok, mem_ok)
       IN /\ tablet' = res.tablet
          /\ T' = res.pool
          /\ interned' = IF interned[s] = NULL
                         THEN [interned EXCEPT ![s] = res.w] ELSE interned
          /\ last' = [op |-> IF mem_ok THEN "intern" ELSE "intern_nomem",
                      key |-> s, r |-> DAGGER_OK, value |-> res.w, probes |-> 0]
    /\ UNCHANGED <<ref, weave, arena, cord, ovars, ivars>>

tvars == <<T, ref, last, tablet, interned, weave, arena, cord, ovars, ivars>>

TabletNext ==
    \E s \in Strings, mem_ok \in BOOLEAN : TabletIntern(s, mem_ok)

SpecTablet == TabletInit /\ [][TabletNext]_tvars

(***************************************************************************)
(* C2: Tablet identity.  With memory available, interning a string that    *)
(* was interned before returns the pointer returned the first time; two    *)
(* distinct strings never have the same pointer; and tablet_lookup gives   *)
(* that same pointer.                                                      *)
(***************************************************************************)
C2_TabletIdentity ==
    /\ \A s1, s2 \in Strings :
          (s1 # s2 /\ interned[s1] # NULL) => interned[s1] # interned[s2]
    /\ (last.op = "intern" /\ interned[last.key] # NULL)
          => last.value = interned[last.key]
    /\ \A s \in Strings :
          interned[s] # NULL => tablet_lookup_len(T, s, KeyLen(s)) = interned[s]

(***************************************************************************)
(* ORDINAL (src/native/ordinal/ordinal.c): the build DAG executor          *)
(***************************************************************************)
ORD_MAX_RECURSION == 32

ORDINAL_OK == "ORDINAL_OK"
ORDINAL_ERROR_NO_TARGET == "ORDINAL_ERROR_NO_TARGET"
ORDINAL_ERROR_CIRCULAR == "ORDINAL_ERROR_CIRCULAR"
ORDINAL_ERROR_COMMAND == "ORDINAL_ERROR_COMMAND"

ORDINAL_STATUS_PENDING == "PENDING"
ORDINAL_STATUS_UP_TO_DATE == "UP_TO_DATE"
ORDINAL_STATUS_REBUILT == "REBUILT"
ORDINAL_STATUS_FAILED == "FAILED"
ORDINAL_STATUS_SKIPPED == "SKIPPED"

\* a NULL char pointer
NullStr == "(null)"

\* The build file of the model declares three targets, in this order; every
\* other name is a file path.  No string of the model holds '$', '*' or '?'.
TargetNames == <<"A", "B", "C">>
TargetIds == 1..Len(TargetNames)
Files == {"in", "A.o", "B.o"}
MaxTime == 2
Now == MaxTime

\* dagger_get(ord->target_map, name): index + 1 of the target, NULL for none
target_map_get(name) ==
    IF \E i \in TargetIds : TargetNames[i] = name
    THEN CHOOSE i \in TargetIds : TargetNames[i] = name
    ELSE NULL

\* stat(path).st_mtime, 0 when stat fails
get_mtime(files, path) == IF path \in DOMAIN files THEN files[path] ELSE 0

\* resolve_runtime_vars on a string without '$': a copy of the string
resolve_runtime_vars(str) == str

\* add_target: the target read from its section
add_target(name, deps, command, target_file) ==
    [name |-> name, deps |-> deps, resolved_deps |-> <<>>,
     command |-> command, resolved_command |-> NullStr,
     target_file |-> target_file, is_phony |-> (target_file = NullStr),
     status |-> ORDINAL_STATUS_PENDING, visited |-> FALSE, in_stack |-> FALSE]

ZeroResult ==
    [targets_total |-> 0, targets_rebuilt |-> 0, targets_up_to_date |-> 0,
     targets_failed |-> 0, targets_skipped |-> 0, success |-> FALSE]

\* resolve_target_deps: plain names are kept as they are, target or file
resolve_target_deps(o, idx) ==
    LET target == o.targets[idx]
    IN IF Len(target.deps) = 0 THEN o
       ELSE [o EXCEPT !.targets[idx].resolved_deps =
                         [i \in 1..Len(target.deps) |->
                             resolve_runtime_vars(target.deps[i])]]

\* resolve_command
resolve_command(o, idx) ==
    LET target == o.targets[idx]
    IN IF target.command = NullStr THEN o
       ELSE [o EXCEPT
               !.targets[idx].target_file =
                   IF @ # NullStr THEN resolve_runtime_vars(@) ELSE @,
               !.targets[idx].resolved_command =
                   resolve_runtime_vars(target.command)]

\* needs_rebuild, the loop over the resolved dependencies from index i
RECURSIVE needs_rebuild_deps(_, _, _, _, _)
needs_rebuild_deps(o, target, files, target_mtime, i) ==
    IF i > Len(target.resolved_deps) THEN FALSE
    ELSE LET dep == target.resolved_deps[i]
             idx == target_map_get(dep)
         IN IF idx # NULL
            THEN IF o.targets[idx].status = ORDINAL_STATUS_REBUILT THEN TRUE
                 ELSE needs_rebuild_deps(o, target, files, target_mtime, i + 1)
            ELSE IF get_mtime(files, dep) > target_mtime THEN TRUE
                 ELSE needs_rebuild_deps(o, target, files, target_mtime, i + 1)

\* needs_rebuild without its check that the target file exists
needs_rebuild_output_unchecked(o, target, files) ==
    IF o.config.force THEN TRUE
    ELSE IF target.is_phony THEN TRUE
    ELSE IF target.target_file = NullStr THEN TRUE
    ELSE needs_rebuild_deps(o, target, files,
                            get_mtime(files, target.target_file), 1)

\* needs_rebuild
needs_rebuild(o, target, files) ==
    IF o.config.force THEN TRUE
    ELSE IF target.is_phony THEN TRUE
    ELSE IF target.target_file = NullStr THEN TRUE
    ELSE LET target_mtime == get_mtime(files, target.target_file)
         IN IF target_mtime = 0 THEN TRUE
            ELSE needs_rebuild_deps(o, target, files, target_mtime, 1)

\* execute_command without its dry_run check
execute_command_no_dry_run(o, idx, exit_code) ==
    LET target == o.targets[idx]
    IN IF target.resolved_command = NullStr \/ target.resolved_command = ""
       THEN [ord |-> o, err |-> ORDINAL_OK, ran |-> FALSE]
       ELSE IF exit_code # 0
       THEN [ord |-> [o EXCEPT !.targets[idx].status = ORDINAL_STATUS_FAILED],
             err |-> ORDINAL_ERROR_COMMAND, ran |-> TRUE]
       ELSE [ord |-> [o EXCEPT !.targets[idx].status = ORDINAL_STATUS_REBUILT],
             err |-> ORDINAL_OK, ran |-> TRUE]

\* execute_command; exit_code is what system() returns when it is called
execute_command(o, idx, exit_code) ==
    LET target == o.targets[idx]
    IN IF target.resolved_command = NullStr \/ target.resolved_command = ""
       THEN [ord |-> o, err |-> ORDINAL_OK, ran |-> FALSE]
       ELSE IF o.config.dry_run
       THEN [ord |-> [o EXCEPT !.targets[idx].status = ORDINAL_STATUS_SKIPPED],
             err |-> ORDINAL_OK, ran |-> FALSE]
       ELSE IF exit_code # 0
       THEN [ord |-> [o EXCEPT !.targets[idx].status = ORDINAL_STATUS_FAILED],
             err |-> ORDINAL_ERROR_COMMAND, ran |-> TRUE]
       ELSE [ord |-> [o EXCEPT !.targets[idx].status = ORDINAL_STATUS_REBUILT],
             err |-> ORDINAL_OK, ran |-> TRUE]

(***************************************************************************)
(* ORDINAL: ordinal_run and build_target, one step per action.  A frame of  *)
(* stack is one build_target call: its name and depth, the target index    *)
(* once found, the dependency loop index i, and where the call is:         *)
(* "enter" (just called), "deps" (in the dependency loop), "wait" (the     *)
(* recursive call for dependency i is in progress or has just returned).   *)
(***************************************************************************)
DepChoices(name) ==
    CASE name = "A" -> {<<"B">>, <<"B", "C">>, <<"in", "B">>}
      [] name = "B" -> {<<>>, <<"A">>, <<"C">>, <<"in">>}
      [] OTHER -> {<<>>}

\* ordinal_new, ordinal_load and ordinal_configure: a build file with the
\* targets A (output A.o or none), B (output B.o) and C (no output)
OrdinalInit ==
    /\ \E depsA \in DepChoices("A"), depsB \in DepChoices("B"),
          fileA \in {"A.o", NullStr}, cmdC \in {"cmd", "", NullStr},
          keep_going \in BOOLEAN, dry_run \in BOOLEAN, force \in BOOLEAN :
          ord = [targets |-> << add_target("A", depsA, "cmd", fileA),
                                add_target("B", depsB, "cmd", "B.o"),
                                add_target("C", <<>>, cmdC, NullStr) >>,
                 config |-> [keep_going |-> keep_going, dry_run |-> dry_run,
                             force |-> force],
                 result |-> ZeroResult]
    /\ fs \in [Files -> 0..MaxTime]
    /\ stack = <<>>
    /\ run = [pc |-> "idle", ret |-> ORDINAL_OK, err |-> ORDINAL_OK]
    /\ executed = <<>>
    /\ decided = [i \in TargetIds |-> "none"]
    /\ T = NULL /\ ref = NULL /\ last = NULL /\ tablet = NULL /\ interned = NULL /\ weave = NULL /\ arena = NULL /\ cord = NULL
    /\ IniIdle

Top == stack[Len(stack)]
Pop == SubSeq(stack, 1, Len(stack) - 1)

\* build_target returns err to its caller
Return(err) ==
    /\ stack' = Pop
    /\ run' = [run EXCEPT !.ret = err]

\* ordinal_run(ord, target_name) up to its call of build_target
OrdinalRun(target_name) ==
    /\ run.pc = "idle"
    /\ IF target_map_get(target_name) = NULL
       THEN /\ run' = [run EXCEPT !.pc = "done", !.err = ORDINAL_ERROR_NO_TARGET]
            /\ UNCHANGED <<ord, stack>>
       ELSE /\ ord' = [ord EXCEPT
                         !.result = ZeroResult,
                         !.targets = [i \in TargetIds |->
                            [ord.targets[i] EXCEPT
                                !.visited = FALSE, !.in_stack = FALSE,
                                !.status = ORDINAL_STATUS_PENDING]]]
            /\ stack' = << [name |-> target_name, depth |-> 0, idx |-> NULL,
                            i |-> 1, pc |-> "enter"] >>
            /\ run' = [run EXCEPT !.pc = "running"]
    /\ UNCHANGED <<fs, executed, decided, dtvars, ivars>>

\* build_target's entry without its test of visited
BuildTargetEnter_ignoring_visited ==
    /\ run.pc = "running" /\ stack # <<>> /\ Top.pc = "enter"
    /\ LET idx == target_map_get(Top.name)
       IN IF Top.depth > ORD_MAX_RECURSION
          THEN Return(ORDINAL_ERROR_CIRCULAR) /\ UNCHANGED ord
          ELSE IF idx = NULL
          THEN Return(ORDINAL_OK) /\ UNCHANGED ord
          ELSE IF ord.targets[idx].in_stack
          THEN Return(ORDINAL_ERROR_CIRCULAR) /\ UNCHANGED ord
          ELSE /\ ord' = resolve_target_deps(
                            [ord EXCEPT !.targets[idx].in_stack = TRUE], idx)
               /\ stack' = [stack EXCEPT ![Len(stack)].idx = idx,
                                         ![Len(stack)].pc = "deps"]
               /\ UNCHANGED run
    /\ UNCHANGED <<fs, executed, decided, dtvars, ivars>>

\* build_target from its entry to the start of the dependency loop
BuildTargetEnter ==
    /\ run.pc = "running" /\ stack # <<>> /\ Top.pc = "enter"
    /\ LET idx == target_map_get(Top.name)
       IN IF Top.depth > ORD_MAX_RECURSION
          THEN Return(ORDINAL_ERROR_CIRCULAR) /\ UNCHANGED ord
          ELSE IF idx = NULL
          THEN Return(ORDINAL_OK) /\ UNCHANGED ord
          ELSE IF ord.targets[idx].in_stack
          THEN Return(ORDINAL_ERROR_CIRCULAR) /\ UNCHANGED ord
          ELSE IF ord.targets[idx].visited
          THEN Return(ORDINAL_OK) /\ UNCHANGED ord
          ELSE /\ ord' = resolve_target_deps(
                            [ord EXCEPT !.targets[idx].in_stack = TRUE], idx)
               /\ stack' = [stack EXCEPT ![Len(stack)].idx = idx,
                                         ![Len(stack)].pc = "deps"]
               /\ UNCHANGED run
    /\ UNCHANGED <<fs, executed, decided, dtvars, ivars>>

\* one iteration of the dependency loop, up to the recursive call
BuildTargetDep ==
    /\ run.pc = "running" /\ stack # <<>> /\ Top.pc = "deps"
    /\ Top.i <= Len(ord.targets[Top.idx].resolved_deps)
    /\ LET dep == ord.targets[Top.idx].resolved_deps[Top.i]
       IN IF target_map_get(dep) # NULL
          THEN stack' = Append([stack EXCEPT ![Len(stack)].pc = "wait"],
                               [name |-> dep, depth |-> Top.depth + 1,
                                idx |-> NULL, i |-> 1, pc |-> "enter"])
          ELSE stack' = [stack EXCEPT ![Len(stack)].i = @ + 1]
    /\ UNCHANGED <<ord, fs, run, executed, decided, dtvars, ivars>>

\* build_target's dependency loop going on whatever the recursive call returned
BuildTargetDepReturn_ignoring_errors ==
    /\ run.pc = "running" /\ stack # <<>> /\ Top.pc = "wait"
    /\ stack' = [stack EXCEPT ![Len(stack)].i = @ + 1,
                              ![Len(stack)].pc = "deps"]
    /\ UNCHANGED <<ord, run, fs, executed, decided, dtvars, ivars>>

\* build_target's error return from the dependency loop without its reset of
\* in_stack
BuildTargetDepReturn_keeping_in_stack ==
    /\ run.pc = "running" /\ stack # <<>> /\ Top.pc = "wait"
    /\ IF run.ret # ORDINAL_OK /\ ~ord.config.keep_going
       THEN /\ ord' = [ord EXCEPT
                         !.targets[Top.idx].status = ORDINAL_STATUS_FAILED]
            /\ Return(run.ret)
       ELSE /\ stack' = [stack EXCEPT ![Len(stack)].i = @ + 1,
                                      ![Len(stack)].pc = "deps"]
            /\ UNCHANGED <<ord, run>>
    /\ UNCHANGED <<fs, executed, decided, dtvars, ivars>>

\* the recursive call for dependency i has returned run.ret
BuildTargetDepReturn ==
    /\ run.pc = "running" /\ stack # <<>> /\ Top.pc = "wait"
    /\ IF run.ret # ORDINAL_OK /\ ~ord.config.keep_going
       THEN /\ ord' = [ord EXCEPT
                         !.targets[Top.idx].in_stack = FALSE,
                         !.targets[Top.idx].status = ORDINAL_STATUS_FAILED]
            /\ Return(run.ret)
       ELSE /\ stack' = [stack EXCEPT ![Len(stack)].i = @ + 1,
                                      ![Len(stack)].pc = "deps"]
            /\ UNCHANGED <<ord, run>>
    /\ UNCHANGED <<fs, executed, decided, dtvars, ivars>>

\* build_target after the dependency loop: resolve_command, needs_rebuild,
\* execute_command and the bookkeeping.  exit_code and touch are what the
\* command does when system() runs it: its exit code, and whether it writes
\* the target file.
BuildTargetExecute(exit_code, touch) ==
    /\ run.pc = "running" /\ stack # <<>> /\ Top.pc = "deps"
    /\ Top.i > Len(ord.targets[Top.idx].resolved_deps)
    /\ UNCHANGED <<dtvars, ivars>>
    /\ LET idx == Top.idx
           o1 == resolve_command(ord, idx)
           target == o1.targets[idx]
       IN IF ~needs_rebuild(o1, target, fs)
          THEN /\ ord' = [o1 EXCEPT
                            !.targets[idx].status = ORDINAL_STATUS_UP_TO_DATE,
                            !.targets[idx].visited = TRUE,
                            !.targets[idx].in_stack = FALSE,
                            !.result.targets_up_to_date = @ + 1]
               /\ decided' = [decided EXCEPT ![idx] = "up_to_date"]
               /\ UNCHANGED <<fs, executed>>
               /\ Return(ORDINAL_OK)
          ELSE LET ex == execute_command(o1, idx, exit_code)
                   o2 == [ex.ord EXCEPT
                            !.targets[idx].visited = TRUE,
                            !.targets[idx].in_stack = FALSE,
                            !.result.targets_total = @ + 1]
                   status == o2.targets[idx].status
               IN /\ decided' = [decided EXCEPT ![idx] = "rebuild"]
                  /\ executed' = IF ex.ran
                                 THEN Append(executed, [idx |-> idx,
                                                        exit_code |-> exit_code])
                                 ELSE executed
                  /\ fs' = IF ex.ran /\ touch /\ target.target_file \in Files
                           THEN [fs EXCEPT ![target.target_file] = Now]
                           ELSE fs
                  /\ IF ex.err # ORDINAL_OK
                     THEN /\ ord' = [o2 EXCEPT !.result.targets_failed = @ + 1]
                          /\ Return(ex.err)
                     ELSE /\ ord' =
                               IF status = ORDINAL_STATUS_REBUILT
                               THEN [o2 EXCEPT !.result.targets_rebuilt = @ + 1]
                               ELSE IF status = ORDINAL_STATUS_SKIPPED
                               THEN [o2 EXCEPT !.result.targets_skipped = @ + 1]
                               ELSE o2
                          /\ Return(ORDINAL_OK)

\* ordinal_run after build_target has returned
OrdinalRunReturn ==
    /\ run.pc = "running" /\ stack = <<>>
    /\ ord' = [ord EXCEPT !.result.success = (run.ret = ORDINAL_OK)]
    /\ run' = [run EXCEPT !.pc = "done", !.err = run.ret]
    /\ UNCHANGED <<fs, stack, executed, decided, dtvars, ivars>>

RunTargets == {"A"}
ExitCodes == {0, 1}

avars == <<dtvars, ovars, ivars>>

OrdinalNext ==
    \/ \E target_name \in RunTargets : OrdinalRun(target_name)
    \/ BuildTargetEnter
    \/ BuildTargetDep
    \/ BuildTargetDepReturn
    \/ \E exit_code \in ExitCodes, touch \in BOOLEAN :
          BuildTargetExecute(exit_code, touch)
    \/ OrdinalRunReturn

SpecOrdinal == OrdinalInit /\ [][OrdinalNext]_avars

(***************************************************************************)
(* ORDINAL: what the run of a build file is expected to do                 *)
(***************************************************************************)
HasDep(idx, name) ==
    \E i \in 1..Len(ord.targets[idx].deps) : ord.targets[idx].deps[i] = name

CommandFailed == \E k \in 1..Len(executed) : executed[k].exit_code # 0

RunDone == run.pc = "done"

(***************************************************************************)
(* C3: circular dependency.  When target A depends on target B and B       *)
(* depends on A, ordinal_run("A") returns ORDINAL_ERROR_CIRCULAR and no    *)
(* target's command is executed during that run.                           *)
(***************************************************************************)
C3_CircularDependency ==
    (HasDep(1, "B") /\ HasDep(2, "A"))
        => /\ executed = <<>>
           /\ RunDone => run.err = ORDINAL_ERROR_CIRCULAR

(***************************************************************************)
(* C4: with keep_going unset the run stops at the first error.  Once a     *)
(* command has exited non-zero it is the last command of the run, every    *)
(* build_target call still in progress is an ancestor receiving            *)
(* ORDINAL_ERROR_COMMAND from the call it made (and every ancestor that    *)
(* has returned ended FAILED), and ordinal_run returns                     *)
(* ORDINAL_ERROR_COMMAND.                                                  *)
(***************************************************************************)
C4_StopsAtFirstError ==
    ~ord.config.keep_going =>
        \A k \in 1..Len(executed) :
            executed[k].exit_code # 0 =>
                /\ k = Len(executed)
                /\ run.ret = ORDINAL_ERROR_COMMAND
                /\ \A d \in 1..Len(stack) : stack[d].pc = "wait"
                /\ \A i \in TargetIds :
                      (decided[i] # "none" /\ i # executed[k].idx)
                          => ord.targets[i].status # ORDINAL_STATUS_FAILED
                /\ \A i \in TargetIds :
                      (decided[i] = "none" /\ ord.targets[i].in_stack = FALSE
                         /\ ord.targets[i].status # ORDINAL_STATUS_PENDING)
                          => ord.targets[i].status = ORDINAL_STATUS_FAILED
                /\ RunDone => run.err = ORDINAL_ERROR_COMMAND

\* B's command fails under A, whose next dependency C is never built
C4_Witness ==
    /\ RunDone /\ ~ord.config.keep_going
    /\ ord.targets[1].deps = <<"B", "C">>
    /\ executed = << [idx |-> 2, exit_code |-> 1] >>
    /\ decided[3] = "none" /\ decided[1] = "none"
    /\ ord.targets[1].status = ORDINAL_STATUS_FAILED
    /\ run.err = ORDINAL_ERROR_COMMAND

(***************************************************************************)
(* C5: any failure is reported.  If a target's command failed during the   *)
(* run, with or without keep_going, then after the run result.success is   *)
(* false, result.targets_failed is at least 1 and ordinal_run returned a   *)
(* code other than ORDINAL_OK.                                             *)
(***************************************************************************)
C5_FailureReported ==
    (RunDone /\ CommandFailed)
        => /\ ord.result.success = FALSE
           /\ ord.result.targets_failed >= 1
           /\ run.err # ORDINAL_OK

(***************************************************************************)
(* C6: up-to-date logic.  When build_target decides about a target, it     *)
(* takes the rebuild path if and only if force is set, or the target is    *)
(* phony, or its output file does not exist, or one of its dependencies is *)
(* a target with status REBUILT in this run, or one of its file            *)
(* dependencies has an mtime strictly greater than the output file's; a    *)
(* dependency that is a target is not compared by mtime.  On the rebuild   *)
(* path a non-empty command is executed unless dry_run is set; otherwise   *)
(* the target is marked UP_TO_DATE and no command is executed.             *)
(***************************************************************************)
RebuildCondition(idx) ==
    LET t == ord.targets[idx]
    IN \/ ord.config.force
       \/ t.target_file = NullStr
       \/ fs[t.target_file] = 0
       \/ \E i \in 1..Len(t.deps) :
             \E d \in TargetIds :
                /\ TargetNames[d] = t.deps[i]
                /\ ord.targets[d].status = ORDINAL_STATUS_REBUILT
       \/ \E i \in 1..Len(t.deps) :
             /\ t.deps[i] \in Files
             /\ fs[t.deps[i]] > fs[t.target_file]

C6_UpToDateLogic ==
    [][\A idx \in TargetIds :
          (decided[idx] = "none" /\ decided'[idx] # "none") =>
             /\ (decided'[idx] = "rebuild") <=> RebuildCondition(idx)
             /\ (decided'[idx] = "rebuild" /\ ~ord.config.dry_run
                   /\ ord.targets[idx].command \notin {"", NullStr})
                   => /\ Len(executed') = Len(executed) + 1
                      /\ executed'[Len(executed')].idx = idx
             /\ decided'[idx] = "up_to_date"
                   => /\ ord'.targets[idx].status = ORDINAL_STATUS_UP_TO_DATE
                      /\ ord'.result.targets_up_to_date
                            = ord.result.targets_up_to_date + 1
                      /\ ord'.result.targets_rebuilt = ord.result.targets_rebuilt
                      /\ executed' = executed]_avars

\* A and B both found up to date although B's output is newer than A's, and
\* the run reports 0 rebuilt / 2 up-to-date
C6_Witness ==
    /\ RunDone
    /\ ~ord.config.force
    /\ ord.targets[1].deps = <<"in", "B">>
    /\ fs["A.o"] > 0 /\ fs["in"] = fs["A.o"] /\ fs["B.o"] > fs["A.o"]
    /\ decided[1] = "up_to_date" /\ decided[2] = "up_to_date"
    /\ ord.result.targets_rebuilt = 0 /\ ord.result.targets_up_to_date = 2
    /\ executed = <<>>

(***************************************************************************)
(* C7: dry run.  With dry_run set no command is ever passed to system()    *)
(* during ordinal_run; every target that needed a rebuild and has a        *)
(* non-empty resolved command ends with status SKIPPED and is counted in   *)
(* targets_skipped; no target ends REBUILT, and none ends FAILED because   *)
(* of a command (targets_failed stays 0).                                  *)
(***************************************************************************)
C7_DryRun ==
    ord.config.dry_run =>
        /\ executed = <<>>
        /\ \A i \in TargetIds :
              /\ (decided[i] = "rebuild"
                    /\ ord.targets[i].resolved_command \notin {"", NullStr})
                    => ord.targets[i].status = ORDINAL_STATUS_SKIPPED
              /\ ord.targets[i].status # ORDINAL_STATUS_REBUILT
              /\ ord.targets[i].status = ORDINAL_STATUS_FAILED
                    => run.ret = ORDINAL_ERROR_CIRCULAR
        /\ ord.result.targets_skipped =
              Cardinality({i \in TargetIds :
                              ord.targets[i].status = ORDINAL_STATUS_SKIPPED})
        /\ ord.result.targets_rebuilt = 0
        /\ ord.result.targets_failed = 0

\* a dry run in which A, B and C needed a rebuild; C has no command
C7_Witness ==
    /\ RunDone /\ ord.config.dry_run
    /\ decided = [i \in TargetIds |-> "rebuild"]
    /\ ord.targets[3].command = ""
    /\ ord.targets[1].status = ORDINAL_STATUS_SKIPPED
    /\ ord.targets[2].status = ORDINAL_STATUS_SKIPPED
    /\ ord.targets[3].status = ORDINAL_STATUS_PENDING
    /\ ord.result.targets_skipped = 2 /\ ord.result.targets_total = 3
    /\ run.err = ORDINAL_OK

(***************************************************************************)
(* ZORYA-INI (src/native/ini/zorya_ini.c): the interpolation engine.       *)
(* A C string is a sequence of one-character strings; NullSeq is the NULL  *)
(* pointer.  ini.entries is the entry table in the order dagger_foreach    *)
(* visits it (slot order).  The model's strings stay far below             *)
(* INTERP_MAX_OUTPUT and its allocations succeed, so a resolve_string call *)
(* that passes its entry checks returns a string.  icalls is the stack of  *)
(* the resolve_string calls in progress, the innermost one last: the       *)
(* string, the section, the depth, the scan position p, the output so far, *)
(* and wait = the closing brace of the reference whose value the call is   *)
(* waiting for (0 when it is scanning).                                    *)
(***************************************************************************)
INTERP_MAX_DEPTH == 32

ZORYA_INI_OK == "ZORYA_INI_OK"
ZORYA_INI_ERROR_INTERP == "ZORYA_INI_ERROR_INTERP"

NullSeq == <<"(null)">>

s_default == <<"d", "e", "f", "a", "u", "l", "t">>
s_project == <<"p", "r", "o", "j", "e", "c", "t">>
s_env == <<"e", "n", "v">>
s_env_colon == <<"e", "n", "v", ":">>

\* the process environment: getenv(name), NULL when the variable is not set
Environ == [n \in {<<"H">>} |-> <<"h">>]
getenv(name) == IF name \in DOMAIN Environ THEN Environ[name] ELSE NullSeq

\* tablet_intern(strings, s): NULL for the empty string
ini_intern(s) == IF s = <<>> THEN NullSeq ELSE s

\* weave_cstr(w): "" for NULL
weave_cstr(w) == IF w = NullSeq THEN <<>> ELSE w

\* strchr(str, c) != NULL
HasChar(str, c) == \E i \in 1..Len(str) : str[i] = c

\* strchr(str + from - 1, c): the index of the first c at or after from, 0 for NULL
RECURSIVE strchr_from(_, _, _)
strchr_from(str, from, c) ==
    IF from > Len(str) THEN 0
    ELSE IF str[from] = c THEN from
    ELSE strchr_from(str, from + 1, c)

\* strstr(str, ":-"): the index of the first occurrence, 0 for NULL
RECURSIVE strstr_default_sep(_, _)
strstr_default_sep(str, from) ==
    IF from + 1 > Len(str) THEN 0
    ELSE IF str[from] = ":" /\ str[from + 1] = "-" THEN from
    ELSE strstr_default_sep(str, from + 1)

\* make_full_key
make_full_key(section, key) ==
    IF section = NullSeq \/ section = <<>> THEN key
    ELSE section \o <<".">> \o key

\* dagger_get(ini->entries, key): the slot of the entry, 0 when not found
entry_slot(entries, full_key) ==
    IF \E i \in 1..Len(entries) : entries[i].full_key = full_key
    THEN CHOOSE i \in 1..Len(entries) : entries[i].full_key = full_key
    ELSE 0

\* zorya_ini_get
zorya_ini_get(entries, key) ==
    LET i == entry_slot(entries, key)
    IN IF i = 0 THEN NullSeq
       ELSE IF entries[i].resolved_value # NullSeq THEN entries[i].resolved_value
       ELSE weave_cstr(entries[i].raw_value)

\* resolve_string's search for the closing brace: the index of the brace
\* that brings brace_depth to 0, 0 when the string ends first
RECURSIVE find_close(_, _, _)
find_close(str, end, brace_depth) ==
    IF end > Len(str) THEN 0
    ELSE LET bd == IF str[end] = "{" THEN brace_depth + 1
                   ELSE IF str[end] = "}" THEN brace_depth - 1
                   ELSE brace_depth
         IN IF bd = 0 THEN end ELSE find_close(str, end + 1, bd)

\* find_variable looking in [default] before the root level
find_lookup_default_first(entries, var_name, current_section) ==
    LET in_section == zorya_ini_get(entries, make_full_key(current_section, var_name))
        in_root == zorya_ini_get(entries, var_name)
        in_default == zorya_ini_get(entries, make_full_key(s_default, var_name))
    IN IF current_section # <<>> /\ in_section # NullSeq
       THEN [kind |-> "resolve", s |-> in_section, section |-> current_section]
       ELSE IF in_default # NullSeq
       THEN [kind |-> "resolve", s |-> in_default, section |-> s_default]
       ELSE IF in_root # NullSeq
       THEN [kind |-> "resolve", s |-> in_root, section |-> current_section]
       ELSE [kind |-> "result", s |-> NullSeq, section |-> current_section]

\* find_variable from its env: check to the label done, up to the call of
\* resolve_string: either the result itself (kind "result") or the value
\* found and the section it is to be resolved in (kind "resolve")
find_lookup(entries, var_name, current_section) ==
    LET in_section == zorya_ini_get(entries, make_full_key(current_section, var_name))
        in_root == zorya_ini_get(entries, var_name)
        in_default == zorya_ini_get(entries, make_full_key(s_default, var_name))
        in_project == zorya_ini_get(entries, make_full_key(s_project, var_name))
        in_env == zorya_ini_get(entries, make_full_key(s_env, var_name))
        colon == strchr_from(var_name, 2, ":")
        explicit == zorya_ini_get(entries,
                       make_full_key(SubSeq(var_name, 2, colon - 1),
                                     SubSeq(var_name, colon + 1, Len(var_name))))
        none == [kind |-> "result", s |-> NullSeq, section |-> current_section]
    IN IF Len(var_name) >= 4 /\ SubSeq(var_name, 1, 4) = s_env_colon
       THEN [kind |-> "result", s |-> getenv(SubSeq(var_name, 5, Len(var_name))),
             section |-> current_section]
       ELSE IF var_name # <<>> /\ var_name[1] = "@"
       THEN IF colon # 0 /\ explicit # NullSeq
            THEN [kind |-> "resolve", s |-> explicit, section |-> current_section]
            ELSE none
       ELSE IF current_section # NullSeq /\ current_section # <<>>
               /\ in_section # NullSeq
       THEN [kind |-> "resolve", s |-> in_section, section |-> current_section]
       ELSE IF in_root # NullSeq
       THEN [kind |-> "resolve", s |-> in_root, section |-> current_section]
       ELSE IF in_default # NullSeq
       THEN [kind |-> "resolve", s |-> in_default, section |-> s_default]
       ELSE IF in_project # NullSeq
       THEN [kind |-> "resolve", s |-> in_project, section |-> s_project]
       ELSE IF in_env # NullSeq
       THEN [kind |-> "resolve", s |-> in_env, section |-> s_env]
       ELSE none

\* resolve_string, its checks on entry: the value it returns at once (kind
\* "ret"; deep tells that depth > INTERP_MAX_DEPTH refused the call), or
\* kind "scan" when it goes on to scan str
resolve_string_entry(str, depth) ==
    IF str = NullSeq THEN [kind |-> "ret", s |-> NullSeq, deep |-> FALSE]
    ELSE IF depth > INTERP_MAX_DEPTH
    THEN [kind |-> "ret", s |-> NullSeq, deep |-> TRUE]
    ELSE IF ~HasChar(str, "$") THEN [kind |-> "ret", s |-> str, deep |-> FALSE]
    ELSE [kind |-> "scan", s |-> NullSeq, deep |-> FALSE]

\* the frame of resolve_string(str, current_section, depth) starting its scan
Frame(str, current_section, depth) ==
    [str |-> str, section |-> current_section, depth |-> depth,
     p |-> 1, out |-> <<>>, wait |-> 0]

\* resolve_string at position p: the closing brace of the reference that
\* starts there, 0 when no reference starts there
ref_end(str, p) ==
    IF str[p] = "$" /\ p + 1 <= Len(str) /\ str[p + 1] = "{"
    THEN find_close(str, p + 2, 1) ELSE 0

\* the first position from p on where a reference starts, Len(str) + 1 for none
RECURSIVE next_ref(_, _)
next_ref(str, p) ==
    IF p > Len(str) THEN p
    ELSE IF ref_end(str, p) # 0 THEN p
    ELSE next_ref(str, p + 1)

\* find_variable(var_name0, f.section, f.depth) called by the frame f for the
\* reference that ends at end: what the frame does next.  kind "push": a
\* resolve_string call (str, section) at depth + 1 that scans; kind "value":
\* find_variable returned s (NullSeq for NULL).
find_variable(entries, var_name0, current_section, depth) ==
    LET sep == strstr_default_sep(var_name0, 1)
        var_name == IF sep # 0 THEN SubSeq(var_name0, 1, sep - 1) ELSE var_name0
        default_val == SubSeq(var_name0, sep + 2, Len(var_name0))
        lk == find_lookup(entries, var_name, current_section)
        first == IF lk.kind = "result"
                 THEN [kind |-> "ret", s |-> lk.s, deep |-> FALSE]
                 ELSE resolve_string_entry(lk.s, depth + 1)
        second == resolve_string_entry(default_val, depth + 1)
    IN IF var_name0 = NullSeq \/ var_name0 = <<>>
       THEN [kind |-> "value", s |-> NullSeq, deep |-> FALSE]
       ELSE IF first.kind = "scan"
       THEN [kind |-> "push", s |-> lk.s, section |-> lk.section, deep |-> FALSE]
       ELSE IF first.s # NullSeq \/ sep = 0
       THEN [kind |-> "value", s |-> first.s, deep |-> first.deep]
       ELSE IF second.kind = "scan"
       THEN [kind |-> "push", s |-> default_val, section |-> current_section,
             deep |-> first.deep]
       ELSE [kind |-> "value", s |-> second.s,
             deep |-> first.deep \/ second.deep]

\* resolve_string: the output after the value found for a reference
append_resolved(out, resolved) ==
    IF resolved # NullSeq THEN out \o resolved ELSE out

(***************************************************************************)
(* ZORYA-INI: typed values.  parsed is the ZoryaIniValue of an entry: its   *)
(* type, is_array and the member of the union v that the code wrote.       *)
(***************************************************************************)
ZORYA_INI_TYPE_STRING == "ZORYA_INI_TYPE_STRING"
ZORYA_INI_TYPE_INT == "ZORYA_INI_TYPE_INT"
ZORYA_INI_TYPE_FLOAT == "ZORYA_INI_TYPE_FLOAT"
ZORYA_INI_TYPE_BOOL == "ZORYA_INI_TYPE_BOOL"
ZORYA_INI_TYPE_PATH == "ZORYA_INI_TYPE_PATH"
ZORYA_INI_TYPE_URL == "ZORYA_INI_TYPE_URL"
ZORYA_INI_TYPE_DATE == "ZORYA_INI_TYPE_DATE"
ZORYA_INI_TYPE_DATETIME == "ZORYA_INI_TYPE_DATETIME"
ZORYA_INI_TYPE_ARRAY == "ZORYA_INI_TYPE_ARRAY"

Digit == <<"0", "1", "2", "3", "4", "5", "6", "7", "8", "9">>
IsDigit(c) == \E d \in 1..10 : Digit[d] = c
DigitValue(c) == (CHOOSE d \in 1..10 : Digit[d] = c) - 1

\* strtoll(str, &endptr, 10) on a string without sign or leading blanks:
\* the value of the leading digits, and where they end
RECURSIVE strtoll_from(_, _, _)
strtoll_from(str, i, acc) ==
    IF i > Len(str) THEN [val |-> acc, endptr |-> i]
    ELSE IF ~IsDigit(str[i]) THEN [val |-> acc, endptr |-> i]
    ELSE strtoll_from(str, i + 1, 10 * acc + DigitValue(str[i]))

strtoll(str) == strtoll_from(str, 1, 0)

\* strtod(str, NULL) on a string without sign, exponent or leading blanks:
\* the digits before and after the point, as the fraction num / den
RECURSIVE Pow10(_)
Pow10(n) == IF n = 0 THEN 1 ELSE 10 * Pow10(n - 1)

strtod(str) ==
    LET whole == strtoll_from(str, 1, 0)
        point == whole.endptr <= Len(str) /\ str[whole.endptr] = "."
        frac == strtoll_from(str, whole.endptr + 1, 0)
        digits == frac.endptr - (whole.endptr + 1)
    IN IF point /\ (whole.endptr > 1 \/ digits > 0)
       THEN [num |-> whole.val * Pow10(digits) + frac.val, den |-> Pow10(digits)]
       ELSE [num |-> whole.val, den |-> 1]

\* tolower of the letters the model's strings hold
LowerOf == [c \in {"T", "R", "U", "E", "Y", "S", "O", "N"} |->
              CASE c = "T" -> "t" [] c = "R" -> "r" [] c = "U" -> "u"
                [] c = "E" -> "e" [] c = "Y" -> "y" [] c = "S" -> "s"
                [] c = "O" -> "o" [] c = "N" -> "n"]
tolower(c) == IF c \in DOMAIN LowerOf THEN LowerOf[c] ELSE c

\* strcasecmp(s1, s2) == 0
strcasecmp_eq(s1, s2) ==
    /\ Len(s1) = Len(s2)
    /\ \A i \in 1..Len(s1) : tolower(s1[i]) = tolower(s2[i])

\* the index of the first character of str at or after i that is not in ws
RECURSIVE skip_blanks(_, _, _)
skip_blanks(str, i, ws) ==
    IF i <= Len(str) /\ str[i] \in ws THEN skip_blanks(str, i + 1, ws) ELSE i

\* parse_type_hint
parse_type_hint(hint) ==
    IF hint = NullSeq THEN ZORYA_INI_TYPE_STRING
    ELSE IF hint = <<"i", "n", "t">> THEN ZORYA_INI_TYPE_INT
    ELSE IF hint = <<"f", "l", "o", "a", "t">> THEN ZORYA_INI_TYPE_FLOAT
    ELSE IF hint = <<"b", "o", "o", "l">> THEN ZORYA_INI_TYPE_BOOL
    ELSE IF hint = <<"p", "a", "t", "h">> THEN ZORYA_INI_TYPE_PATH
    ELSE IF hint = <<"u", "r", "l">> THEN ZORYA_INI_TYPE_URL
    ELSE IF hint = <<"d", "a", "t", "e">> THEN ZORYA_INI_TYPE_DATE
    ELSE IF hint = <<"d", "a", "t", "e", "t", "i", "m", "e">>
    THEN ZORYA_INI_TYPE_DATETIME
    ELSE IF hint = <<"s", "t", "r">> THEN ZORYA_INI_TYPE_STRING
    ELSE IF Len(hint) > 2 /\ hint[Len(hint) - 1] = "[" /\ hint[Len(hint)] = "]"
    THEN ZORYA_INI_TYPE_ARRAY
    ELSE ZORYA_INI_TYPE_STRING

\* parse_bool_value
parse_bool_value(str) ==
    IF str = NullSeq THEN FALSE
    ELSE LET rest == SubSeq(str, skip_blanks(str, 1, {" ", "\t"}), Len(str))
         IN \/ strcasecmp_eq(rest, <<"t", "r", "u", "e">>)
            \/ strcasecmp_eq(rest, <<"y", "e", "s">>)
            \/ strcasecmp_eq(rest, <<"o", "n">>)
            \/ rest = <<"1">>

\* str without the blanks and tabs at its end (the end[-1] loop of parse_array)
RECURSIVE trim_blanks_end(_)
trim_blanks_end(str) ==
    IF str # <<>> /\ str[Len(str)] \in {" ", "\t"}
    THEN trim_blanks_end(SubSeq(str, 1, Len(str) - 1))
    ELSE str

\* parse_array, the loop from position p on: the items between the pipes,
\* without the blanks around them; an item of length 0 is left out
RECURSIVE parse_array_from(_, _, _)
parse_array_from(value, p0, items) ==
    LET p == skip_blanks(value, p0, {" ", "\t"})
        bar == strchr_from(value, p, "|")
        stop == IF bar = 0 THEN Len(value) + 1 ELSE bar
        item == trim_blanks_end(SubSeq(value, p, stop - 1))
        items1 == IF Len(item) > 0 THEN Append(items, item) ELSE items
    IN IF p > Len(value) THEN items
       ELSE parse_array_from(value, stop + 1, items1)

\* parse_array: items is NullSeq for the NULL pointer
parse_array(value) ==
    IF value = NullSeq \/ value = <<>> THEN [items |-> NullSeq, count |-> 0]
    ELSE LET items == parse_array_from(value, 1, <<>>)
         IN [items |-> items, count |-> Len(items)]

\* add_entry, the value parsed by the type hint
parse_by_hint(value, hint) ==
    IF HasChar(value, "|")
    THEN [type |-> ZORYA_INI_TYPE_ARRAY, is_array |-> TRUE, v |-> parse_array(value)]
    ELSE IF hint = ZORYA_INI_TYPE_INT
    THEN [type |-> ZORYA_INI_TYPE_INT, is_array |-> FALSE, v |-> strtoll(value).val]
    ELSE IF hint = ZORYA_INI_TYPE_FLOAT
    THEN [type |-> ZORYA_INI_TYPE_FLOAT, is_array |-> FALSE, v |-> strtod(value)]
    ELSE IF hint = ZORYA_INI_TYPE_BOOL
    THEN [type |-> ZORYA_INI_TYPE_BOOL, is_array |-> FALSE,
          v |-> parse_bool_value(value)]
    ELSE [type |-> ZORYA_INI_TYPE_STRING, is_array |-> FALSE, v |-> value]

\* resolve_entry_callback once resolve_string has returned resolved: the
\* entry with its resolved value, parsed again
store_resolved(entry, resolved) ==
    [entry EXCEPT
       !.resolved_value = resolved,
       !.parsed = IF entry.parsed.is_array \/ HasChar(resolved, "|")
                  THEN [type |-> ZORYA_INI_TYPE_ARRAY, is_array |-> TRUE,
                        v |-> parse_array(resolved)]
                  ELSE parse_by_hint(resolved, entry.hint)]

\* add_entry: dagger_set with replace = 1 on the full key
add_entry_hint(entries, section, key, value, hint) ==
    LET full_key == make_full_key(section, key)
        entry == [full_key |-> full_key, section |-> ini_intern(section),
                  key |-> ini_intern(key), raw_value |-> ini_intern(value),
                  resolved_value |-> NullSeq, hint |-> hint,
                  parsed |-> parse_by_hint(value, hint)]
        i == entry_slot(entries, full_key)
    IN IF i = 0 THEN Append(entries, entry)
       ELSE [entries EXCEPT ![i] = entry]

\* add_entry with the hint ZORYA_INI_TYPE_STRING, of a line without a hint
\* and of the setters
add_entry(entries, section, key, value) ==
    add_entry_hint(entries, section, key, value, ZORYA_INI_TYPE_STRING)

\* parse_buffer, the loop over the lines from line n on: a line is a section
\* header or key = value
RECURSIVE parse_lines(_, _, _, _)
parse_lines(lines, n, current_section, entries) ==
    IF n > Len(lines) THEN entries
    ELSE IF lines[n].kind = "section"
    THEN parse_lines(lines, n + 1, lines[n].name, entries)
    ELSE parse_lines(lines, n + 1, current_section,
                     add_entry_hint(entries, current_section,
                                    lines[n].key, lines[n].value,
                                    parse_type_hint(lines[n].hint)))

(***************************************************************************)
(* ZORYA-INI: the buffers a client loads                                   *)
(***************************************************************************)
KV(key, value) == [kind |-> "kv", key |-> key, value |-> value, hint |-> NullSeq]
SectionLine(name) == [kind |-> "section", name |-> name]
Opt(present, lines) == IF present THEN lines ELSE <<>>

s_S == <<"S">>
Ref(var) == <<"$", "{">> \o var \o <<"}">>
RefDefault(var, def) == <<"$", "{">> \o var \o <<":", "-">> \o def \o <<"}">>
Bracketed(str) == <<"[">> \o str \o <<"]">>

\* the values of a key a that refers to x
LookupForms ==
    { Ref(<<"x">>), Bracketed(RefDefault(<<"x">>, <<"d">>)) }

\* Buffers about the lookup order: x may be defined at the root level (with
\* a value or empty), in [S], [default], [project] and [env]; a, at the root
\* level or in [S], refers to x.
LookupBuffers ==
    { Opt(x # NullSeq, << KV(<<"x">>, x) >>)
      \o Opt(~a_in_S, << KV(<<"a">>, form) >>)
      \o Opt(sx \/ a_in_S, << SectionLine(s_S) >>)
      \o Opt(sx, << KV(<<"x">>, <<"1">>) >>)
      \o Opt(a_in_S, << KV(<<"a">>, form) >>)
      \o Opt(dx, << SectionLine(s_default), KV(<<"x">>, <<"3">>) >>)
      \o Opt(px, << SectionLine(s_project), KV(<<"x">>, <<"4">>) >>)
      \o Opt(ex, << SectionLine(s_env), KV(<<"x">>, <<"5">>) >>) :
      x \in {NullSeq, <<"2">>, <<>>}, sx \in BOOLEAN, dx \in BOOLEAN,
      px \in BOOLEAN, ex \in BOOLEAN, a_in_S \in BOOLEAN,
      form \in LookupForms }

\* Buffers about chains and cycles of references: a at the root level refers
\* to x, to itself or to b; b, at the root level or in [S], refers to a.
ChainBuffers ==
    { Opt(x, << KV(<<"x">>, <<"2">>) >>)
      \o << KV(<<"a">>, a) >>
      \o Opt(b = "root", << KV(<<"b">>, Ref(<<"a">>)) >>)
      \o Opt(sx \/ b = "S", << SectionLine(s_S) >>)
      \o Opt(sx, << KV(<<"x">>, <<"1">>) >>)
      \o Opt(b = "S", << KV(<<"b">>, Ref(<<"a">>)) >>) :
      x \in BOOLEAN, sx \in BOOLEAN, b \in {"none", "root", "S"},
      a \in { Ref(<<"x">>), Ref(<<"a">>), <<"p">> \o Ref(<<"a">>),
              Ref(<<"b">>) } }

IniBuffers == LookupBuffers \cup ChainBuffers

\* the orders in which the slots of a table of n entries can hold them
SlotOrders(n) == Permutations(1..n)

NoFirst == [entries |-> <<>>, err |-> "none"]

\* zorya_ini_new
IniInit ==
    /\ ini = [state |-> "new", entries |-> <<>>, slot |-> 0, err |-> ZORYA_INI_OK]
    /\ icalls = <<>>
    /\ ighost = [lines |-> <<>>, object |-> 0, deep |-> FALSE, first |-> NoFirst]
    /\ T = NULL /\ ref = NULL /\ last = NULL /\ tablet = NULL /\ interned = NULL /\ weave = NULL /\ arena = NULL /\ cord = NULL
    /\ OrdinalIdle

\* zorya_ini_load_buffer(ini, lines) up to resolve_all_interpolations; the
\* table holds the entries in the order of their insertion
IniLoadBuffer(lines) ==
    /\ ini.state = "new"
    /\ ini' = [state |-> "resolving",
               entries |-> parse_lines(lines, 1, <<>>, <<>>),
               slot |-> 0, err |-> ZORYA_INI_OK]
    /\ ighost' = [lines |-> lines, object |-> 1, deep |-> FALSE, first |-> NoFirst]
    /\ UNCHANGED <<icalls, dtvars, ovars>>

\* zorya_ini_new and zorya_ini_load_buffer of the same buffer into a second
\* object, in whose table the hashes put the entries in the slots order
IniLoadBufferAgain(order) ==
    /\ ini.state = "loaded" /\ ighost.object = 1
    /\ LET parsed == parse_lines(ighost.lines, 1, <<>>, <<>>)
       IN ini' = [state |-> "resolving",
                  entries |-> [i \in 1..Len(parsed) |-> parsed[order[i]]],
                  slot |-> 0, err |-> ZORYA_INI_OK]
    /\ ighost' = [ighost EXCEPT !.object = 2, !.deep = FALSE,
                                !.first = [entries |-> ini.entries,
                                           err |-> ini.err]]
    /\ UNCHANGED <<icalls, dtvars, ovars>>

\* resolve_entry_callback returns at once for the entry in slot i
NoInterpolation(entries, i) ==
    \/ entries[i].raw_value = NullSeq
    \/ ~HasChar(weave_cstr(entries[i].raw_value), "$")

\* resolve_all_interpolations: dagger_foreach goes on from ini.slot to the
\* next entry whose callback calls resolve_string, or to the end of the table
ResolveAllNext ==
    /\ ini.state = "resolving" /\ icalls = <<>>
    /\ LET todo == {i \in (ini.slot + 1)..Len(ini.entries) :
                       ~NoInterpolation(ini.entries, i)}
           i == CHOOSE i \in todo : \A j \in todo : i <= j
       IN IF todo = {}
          THEN /\ ini' = [ini EXCEPT !.state = "loaded",
                                     !.slot = Len(ini.entries),
                                     !.err = ZORYA_INI_OK]
               /\ UNCHANGED icalls
          ELSE /\ ini' = [ini EXCEPT !.slot = i]
               /\ icalls' = << Frame(weave_cstr(ini.entries[i].raw_value),
                                     weave_cstr(ini.entries[i].section), 0) >>
    /\ UNCHANGED <<ighost, dtvars, ovars>>

\* resolve_string's loop: the plain characters up to the next reference, or
\* one reference
ResolveStringStep ==
    /\ icalls # <<>>
    /\ LET top == Len(icalls)
           f == icalls[top]
           end == ref_end(f.str, f.p)
           q == next_ref(f.str, f.p)
           var_name == SubSeq(f.str, f.p + 2, end - 1)
           fv == find_variable(ini.entries, var_name, f.section, f.depth)
       IN /\ f.wait = 0 /\ f.p <= Len(f.str)
          /\ IF end = 0
             THEN /\ icalls' = [icalls EXCEPT
                                  ![top].out = @ \o SubSeq(f.str, f.p, q - 1),
                                  ![top].p = q]
                  /\ UNCHANGED ighost
             ELSE IF var_name # <<>> /\ var_name[1] = "_"
             THEN /\ icalls' = [icalls EXCEPT
                                  ![top].out = @ \o SubSeq(f.str, f.p, end),
                                  ![top].p = end + 1]
                  /\ UNCHANGED ighost
             ELSE /\ icalls' =
                       IF fv.kind = "push"
                       THEN Append([icalls EXCEPT ![top].wait = end],
                                   Frame(fv.s, fv.section, f.depth + 1))
                       ELSE [icalls EXCEPT
                               ![top].out = append_resolved(@, fv.s),
                               ![top].p = end + 1]
                  /\ ighost' = [ighost EXCEPT !.deep = @ \/ fv.deep]
    /\ UNCHANGED <<ini, dtvars, ovars>>

\* resolve_string returns its output: to the resolve_string call waiting for
\* it through find_variable, or to resolve_entry_callback
ResolveStringReturn ==
    /\ icalls # <<>>
    /\ LET top == Len(icalls)
           f == icalls[top]
           resolved == f.out
       IN /\ f.wait = 0 /\ f.p > Len(f.str)
          /\ IF top > 1
             THEN /\ icalls' = [SubSeq(icalls, 1, top - 1) EXCEPT
                                  ![top - 1].out = append_resolved(@, resolved),
                                  ![top - 1].p = icalls[top - 1].wait + 1,
                                  ![top - 1].wait = 0]
                  /\ UNCHANGED ini
             ELSE /\ icalls' = <<>>
                  /\ ini' = IF resolved = NullSeq
                            THEN [ini EXCEPT !.state = "loaded",
                                             !.err = ZORYA_INI_ERROR_INTERP]
                            ELSE [ini EXCEPT
                                    !.entries[ini.slot] =
                                        store_resolved(@, resolved)]
    /\ UNCHANGED <<ighost, dtvars, ovars>>

IniNext ==
    \/ \E lines \in IniBuffers : IniLoadBuffer(lines)
    \/ \E order \in SlotOrders(Len(ini.entries)) : IniLoadBufferAgain(order)
    \/ ResolveAllNext
    \/ ResolveStringStep
    \/ ResolveStringReturn

SpecIni == IniInit /\ [][IniNext]_avars

(***************************************************************************)
(* ZORYA-INI: what a load is expected to leave                             *)
(***************************************************************************)
IniLoaded == ini.state = "loaded"

\* zorya_ini_get of every key of the table
IniValues(entries) ==
    [k \in {entries[i].full_key : i \in 1..Len(entries)} |->
        zorya_ini_get(entries, k)]

(***************************************************************************)
(* C8: interpolation depth.  If resolving the values of a buffer needed    *)
(* more than INTERP_MAX_DEPTH = 32 nested expansions (a resolve_string     *)
(* call was refused for its depth), as for a key that refers to itself     *)
(* directly or through a cycle of keys, then the load returns              *)
(* ZORYA_INI_ERROR_INTERP.                                                 *)
(***************************************************************************)
C8_DepthExceeded ==
    (IniLoaded /\ ighost.deep) => ini.err = ZORYA_INI_ERROR_INTERP

(***************************************************************************)
(* C9: interpolation is deterministic.  Two objects loaded from the same   *)
(* buffer, whose tables hold the entries in different slot orders, end     *)
(* with the same code and the same value for every key.                    *)
(***************************************************************************)
C9_OrderIndependent ==
    (IniLoaded /\ ighost.object = 2)
        => /\ ini.err = ighost.first.err
           /\ IniValues(ini.entries) = IniValues(ighost.first.entries)

(***************************************************************************)
(* C10: variable lookup order.  After a load, an entry of section S whose  *)
(* value is one reference ${var}, possibly with a default and with text    *)
(* around it, to a variable defined by plain values only, has the value of *)
(* the first of S.var, var, default.var, project.var, env.var that exists; *)
(* if none exists, the default text when one is given, and otherwise       *)
(* nothing, in place of the reference.                                     *)
(***************************************************************************)
VarNames == { <<"x">>, <<"a">>, <<"b">> }

\* the keys ${var} stands for in section S, in the order of the lookup
Candidates(section, var) ==
    (IF section = <<>> THEN <<>> ELSE << section \o <<".">> \o var >>)
    \o << var, s_default \o <<".">> \o var, s_project \o <<".">> \o var,
          s_env \o <<".">> \o var >>

RawOf(entries, full_key) ==
    LET hits == {i \in 1..Len(entries) : entries[i].full_key = full_key}
    IN IF hits = {} THEN NullSeq
       ELSE weave_cstr(entries[CHOOSE i \in hits : TRUE].raw_value)

Defined(entries, full_key) ==
    \E i \in 1..Len(entries) : entries[i].full_key = full_key

\* the text that replaces ${var} or ${var:-def} (def = NullSeq: no default)
Expected(entries, section, var, def) ==
    LET cands == Candidates(section, var)
        found == {k \in 1..Len(cands) : Defined(entries, cands[k])}
        first == CHOOSE k \in found : \A j \in found : k <= j
    IN IF found # {} THEN RawOf(entries, cands[first])
       ELSE IF def # NullSeq THEN def
       ELSE <<>>

PlainCandidates(entries, section, var) ==
    \A k \in 1..Len(Candidates(section, var)) :
        ~HasChar(RawOf(entries, Candidates(section, var)[k]), "$")

C10_LookupOrder ==
    IniLoaded =>
        \A i \in 1..Len(ini.entries) : \A var \in VarNames :
            LET e == ini.entries[i]
                section == weave_cstr(e.section)
                raw == weave_cstr(e.raw_value)
                value == zorya_ini_get(ini.entries, e.full_key)
            IN PlainCandidates(ini.entries, section, var) =>
                 /\ raw = Ref(var)
                      => value = Expected(ini.entries, section, var, NullSeq)
                 /\ raw = Bracketed(RefDefault(var, <<"d">>))
                      => value = Bracketed(Expected(ini.entries, section, var,
                                                    <<"d">>))

\* [S] a = ${x} took the value of default.x, with project.x and env.x
\* defined too and neither S.x nor x
C10_Witness ==
    /\ IniLoaded
    /\ RawOf(ini.entries, <<"S", ".", "a">>) = Ref(<<"x">>)
    /\ ~Defined(ini.entries, <<"S", ".", "x">>)
    /\ ~Defined(ini.entries, <<"x">>)
    /\ Defined(ini.entries, s_default \o <<".", "x">>)
    /\ Defined(ini.entries, s_project \o <<".", "x">>)
    /\ Defined(ini.entries, s_env \o <<".", "x">>)
    /\ zorya_ini_get(ini.entries, <<"S", ".", "a">>) = <<"3">>

(***************************************************************************)
(* ZORYA-INI on its DaggerTable: definitions, setters and getters.  T is   *)
(* ini->entries, keyed by the full key (a key of Keys); the value of a     *)
(* slot is the address of an IniEntry, the ordinal of its calloc in        *)
(* ini.heap.  The values defined here hold no reference, so the post-parse *)
(* pass leaves them alone.  ighost.recent is the value of the most recent  *)
(* definition of each full key (NullSeq: never defined).                   *)
(***************************************************************************)
INI_INITIAL_CAPACITY == 64

\* the values a line or a setter gives a key
IniRawValues == { <<"8", "0">>, <<"8", "0", "8", "0">> }

\* the definitions made in a run: the fill keys once each, and four more
MaxDefs == NumFill + 4

\* add_entry's new IniEntry (hint ZORYA_INI_TYPE_STRING, no '|' in value)
NewIniEntry(value) ==
    [raw_value |-> ini_intern(value), resolved_value |-> NullSeq, live |-> TRUE]

\* entry_destroy, T->value_destroy of ini->entries
entry_destroy(heap, addr) == [heap EXCEPT ![addr].live = FALSE]

\* the slot dagger_insert_internal finds the key in, with allow_replace,
\* holds the old entry that it destroys
replaced_entries(tab, tab2) ==
    {tab.entries[i].value : i \in {j \in DOMAIN tab.entries :
        /\ j \in DOMAIN tab2.entries
        /\ tab.entries[j].occupied /\ tab2.entries[j].occupied
        /\ tab.entries[j].key = tab2.entries[j].key
        /\ tab.entries[j].value # tab2.entries[j].value}}

\* zorya_ini_get on the table: the string, NullSeq for NULL
table_get(tab, heap, key) ==
    LET g == dagger_get(tab, key, KeyLen(key))
    IN IF g.r # DAGGER_OK THEN NullSeq
       ELSE IF g.value = NULL THEN NullSeq
       ELSE IF heap[g.value].resolved_value # NullSeq
       THEN heap[g.value].resolved_value
       ELSE weave_cstr(heap[g.value].raw_value)

\* zorya_ini_get_int_default
zorya_ini_get_int_default(tab, heap, key, def) ==
    LET g == dagger_get(tab, key, KeyLen(key))
        entry == heap[g.value]
        str_val == IF entry.resolved_value # NullSeq THEN entry.resolved_value
                   ELSE weave_cstr(entry.raw_value)
        parsed == strtoll(str_val)
    IN IF g.r # DAGGER_OK THEN def
       ELSE IF g.value = NULL THEN def
       ELSE IF parsed.endptr = 1 THEN def
       ELSE parsed.val

zorya_ini_get_int(tab, heap, key) == zorya_ini_get_int_default(tab, heap, key, 0)

\* zorya_ini_new
IniTableInit ==
    /\ T = dagger_create(INI_INITIAL_CAPACITY)
    /\ ini = [heap |-> <<>>, key_count |-> 0]
    /\ ighost = [recent |-> [k \in Keys |-> NullSeq]]
    /\ last = IdleLast
    /\ icalls = <<>>
    /\ ref = NULL /\ tablet = NULL /\ interned = NULL /\ weave = NULL /\ arena = NULL /\ cord = NULL
    /\ OrdinalIdle

\* The definitions a run makes: the fill keys in increasing order, once
\* each, on lines of the file with the value 80; then the free keys, any
\* number of times
MayDefine(key, value, via) ==
    /\ Len(ini.heap) < MaxDefs
    /\ IF key \in FreeKeys THEN ighost.recent[NumFill] # NullSeq
       ELSE /\ ighost.recent[key] = NullSeq
            /\ value = <<"8", "0">> /\ via = "line"
            /\ IF key = 1 THEN TRUE ELSE ighost.recent[key - 1] # NullSeq

\* add_entry(ini, section, key, value, hint, line) for the full key; via
\* tells who calls it: parse_buffer for a line of the file or of an included
\* file (the result is dropped), or zorya_ini_set (the result is returned)
IniAddEntry(key, value, via) ==
    /\ MayDefine(key, value, via)
    /\ LET addr == Len(ini.heap) + 1
           heap1 == Append(ini.heap, NewIniEntry(value))
           res == dagger_set(T, key, KeyLen(key), addr, TRUE, TRUE, TRUE)
           old == replaced_entries(T, res.T)
           heap2 == [a \in DOMAIN heap1 |->
                        IF a \in old THEN entry_destroy(heap1, a)[a] ELSE heap1[a]]
       IN IF res.r # DAGGER_OK
          THEN /\ T' = res.T
               /\ ini' = [ini EXCEPT !.heap = entry_destroy(heap1, addr)]
               /\ last' = [op |-> via, key |-> key, r |-> res.r,
                           value |-> NULL, probes |-> 0]
               /\ UNCHANGED ighost
          ELSE /\ T' = res.T
               /\ ini' = [heap |-> heap2, key_count |-> ini.key_count + 1]
               /\ last' = [op |-> via, key |-> key, r |-> res.r,
                           value |-> addr, probes |-> 0]
               /\ ighost' = [ighost EXCEPT !.recent[key] = value]
    /\ UNCHANGED <<ref, tablet, interned, icalls, weave, arena, cord, ovars>>

\* zorya_ini_has(ini, key)
IniHas(key) ==
    /\ key \in FreeKeys
    /\ LET g == dagger_get(T, key, KeyLen(key))
       IN last' = [op |-> "has", key |-> key, r |-> g.r, value |-> g.value,
                   probes |-> g.probes]
    /\ UNCHANGED <<T, ini, ighost, ref, tablet, interned, icalls, weave, arena, cord, ovars>>

IniDefiners == {"line", "include", "set"}

IniTableNext ==
    \/ \E key \in Keys, value \in IniRawValues, via \in IniDefiners :
           IniAddEntry(key, value, via)
    \/ \E key \in Keys : IniHas(key)

SpecIniTable == IniTableInit /\ [][IniTableNext]_avars

\* the slots of the table that hold the key
SlotsOf(tab, key) ==
    {i \in DOMAIN tab.entries : tab.entries[i].occupied /\ tab.entries[i].key = key}

(***************************************************************************)
(* C11: last definition wins.  For every full key that was defined (by a   *)
(* line, a line of an included file or a setter), get returns the value of *)
(* its most recent definition, get_int that value as a number, and the     *)
(* table holds the key in exactly one slot.                                *)
(***************************************************************************)
C11_LastDefinitionWins ==
    \A key \in Keys :
        ighost.recent[key] # NullSeq =>
            /\ table_get(T, ini.heap, key) = ighost.recent[key]
            /\ zorya_ini_get_int(T, ini.heap, key) = strtoll(ighost.recent[key]).val
            /\ Cardinality(SlotsOf(T, key)) = 1

(***************************************************************************)
(* ZORYA-INI: zorya_ini_load and parse_buffer, line by line.  A file is    *)
(* the sequence of its lines (the text between the '\n's), a line a        *)
(* sequence of characters.  The files live in one directory; icalls is the *)
(* stack of the parse_buffer calls in progress, the innermost one last.    *)
(* The values of these files hold no '$', so resolve_all_interpolations,   *)
(* at the end of the outermost parse_buffer, changes nothing and returns   *)
(* ZORYA_INI_OK.                                                           *)
(***************************************************************************)
INI_MAX_KEY_LENGTH == 256
INI_MAX_SECTION_LENGTH == 256
INI_MAX_INCLUDE_DEPTH == 16

ZORYA_INI_ERROR_IO == "ZORYA_INI_ERROR_IO"
ZORYA_INI_ERROR_SYNTAX == "ZORYA_INI_ERROR_SYNTAX"
ZORYA_INI_ERROR_CIRCULAR == "ZORYA_INI_ERROR_CIRCULAR"
ZORYA_INI_ERROR_INCLUDE == "ZORYA_INI_ERROR_INCLUDE"

Blanks == {" ", "\t"}

\* skip_ws(str + i - 1): the index of the first character from i on that is
\* neither a space nor a tab, Len(str) + 1 when there is none
RECURSIVE skip_ws(_, _)
skip_ws(str, i) ==
    IF i > Len(str) THEN i
    ELSE IF str[i] \in Blanks THEN skip_ws(str, i + 1)
    ELSE i

\* str without the characters of ws at its end (trim_trailing; the key_end loop)
RECURSIVE trim_end(_, _)
trim_end(str, ws) ==
    IF str = <<>> THEN str
    ELSE IF str[Len(str)] \in ws THEN trim_end(SubSeq(str, 1, Len(str) - 1), ws)
    ELSE str

trim_trailing(str) == trim_end(str, {" ", "\t", "\r", "\n"})

\* strncmp(str + i - 1, pat, Len(pat)) == 0
starts_with(str, i, pat) ==
    /\ i + Len(pat) - 1 <= Len(str)
    /\ SubSeq(str, i, i + Len(pat) - 1) = pat

\* while (*lp && *lp not in stops) lp++
RECURSIVE scan_to(_, _, _)
scan_to(str, i, stops) ==
    IF i > Len(str) THEN i
    ELSE IF str[i] \in stops THEN i
    ELSE scan_to(str, i + 1, stops)

s_include == <<"i", "n", "c", "l", "u", "d", "e">>

\* get_directory(path)
RECURSIVE strrchr_slash(_, _)
strrchr_slash(path, i) ==
    IF i = 0 THEN 0
    ELSE IF path[i] = "/" THEN i
    ELSE strrchr_slash(path, i - 1)

get_directory(path) ==
    LET last_slash == strrchr_slash(path, Len(path))
    IN IF last_slash = 0 THEN <<".">>
       ELSE IF last_slash = 1 THEN <<"/">>
       ELSE SubSeq(path, 1, last_slash - 1)

\* join_path(base, file)
join_path(base, file) ==
    IF file # <<>> /\ file[1] = "/" THEN file
    ELSE base \o <<"/">> \o file

\* What parse_buffer makes of a line that is not the continuation of a
\* multi-line value: kind "skip" (continue), "include" (s1 the path as
\* written, optional), "section" (s1 the name), "multiline" (s1 the key:
\* the value follows on indented lines) or "kv" (s1 the key, s2 the value)
LineResult(kind, optional, s1, s2) ==
    [kind |-> kind, optional |-> optional, s1 |-> s1, s2 |-> s2]

SkipLine == LineResult("skip", FALSE, <<>>, <<>>)

\* the line from the key on: lp is where the key starts
parse_key_value(line_buf, lp) ==
    LET n == Len(line_buf)
        sep == scan_to(line_buf, lp, {"=", ":"})
        key == trim_end(SubSeq(line_buf, lp, sep - 1), Blanks)
        hint_end == scan_to(line_buf, sep + 1, {"=", " ", "\t"})
        eq == IF line_buf[sep] = ":" THEN scan_to(line_buf, hint_end, {"="})
              ELSE sep
        val == skip_ws(line_buf, eq + 1)
    IN IF sep > n THEN SkipLine
       ELSE IF Len(key) = 0 \/ Len(key) >= INI_MAX_KEY_LENGTH THEN SkipLine
       ELSE IF eq > n THEN SkipLine
       ELSE IF val > n THEN LineResult("multiline", FALSE, key, <<>>)
       ELSE LineResult("kv", FALSE, key, trim_trailing(SubSeq(line_buf, val, n)))

parse_line(line_buf) ==
    LET n == Len(line_buf)
        lp == skip_ws(line_buf, 1)
        opt == lp + 9 <= n /\ line_buf[lp + 9] = "?"
        path_at == skip_ws(line_buf, IF opt THEN lp + 10 ELSE lp + 9)
        close == scan_to(line_buf, lp + 1, {"]"})
        sec_len == close - (lp + 1)
    IN IF lp > n THEN SkipLine
       ELSE IF line_buf[lp] \in {"#", ";"} THEN SkipLine
       ELSE IF starts_with(line_buf, lp, <<":", ":">>)
       THEN IF starts_with(line_buf, lp + 2, s_include)
            THEN LineResult("include", opt,
                            trim_trailing(SubSeq(line_buf, path_at, n)), <<>>)
            ELSE SkipLine
       ELSE IF line_buf[lp] = "["
       THEN IF sec_len > 0 /\ sec_len < INI_MAX_SECTION_LENGTH
            THEN LineResult("section", FALSE,
                            SubSeq(line_buf, lp + 1, close - 1), <<>>)
            ELSE SkipLine
       ELSE parse_key_value(line_buf, lp)

\* the files of the directory, by name: m is the file loaded, f a file it
\* may include; there is no file n
f_m == <<"m">>
f_f == <<"f">>
f_n == <<"n">>
NoFile == << <<"(no file)">> >>

Directive(optional, file) ==
    <<":", ":">> \o s_include \o (IF optional THEN <<"?">> ELSE <<>>)
    \o <<" ">> \o file

L_a1 == <<"a", "=", "1">>
L_a2 == <<"a", " ", "=", " ", "2", " ">>
L_S == <<"[", "S", "]">>
L_oops == <<"o", "o", "p", "s">>
L_hint_only == <<"a", ":", "i", "n", "t">>
L_no_key == <<"=", "1">>
L_comment == <<"#", " ", "c">>
L_blank == <<>>
L_b_multiline == <<"b", " ", "=">>
L_continuation == <<" ", "3", "\r">>

MaxLines == 3

MainLines ==
    { L_a1, L_S, L_oops, L_b_multiline,
      Directive(FALSE, f_m), Directive(FALSE, f_f), Directive(TRUE, f_n) }

MainFiles ==
    UNION { [1..n -> MainLines] : n \in 1..MaxLines }
    \cup { << L_comment, L_blank, L_hint_only, L_a1 >>,
           << L_a1, L_no_key >>,
           << L_b_multiline, L_continuation, L_continuation, L_oops >>,
           << L_S, Directive(FALSE, f_n), L_a1 >>,
           << L_a1, Directive(TRUE, f_m) >> }

IncludedFiles ==
    { << L_a2 >>, << L_S, Directive(FALSE, f_m) >>, << L_oops, L_a2 >>,
      << Directive(FALSE, f_f) >>, <<>> }

\* fopen(path, "rb") and the read of the whole file: the lines of the file
\* the path names in the directory ("./" is the directory itself), NoFile
\* when there is no such file
RECURSIVE fopen(_, _)
fopen(files, path) ==
    IF starts_with(path, 1, <<".", "/">>)
    THEN fopen(files, SubSeq(path, 3, Len(path)))
    ELSE IF path \in DOMAIN files THEN files[path]
    ELSE NoFile

\* line_buf[--line_len] = '\0' for a '\r' at the end of the line
remove_cr(line_buf) ==
    IF line_buf # <<>> /\ line_buf[Len(line_buf)] = "\r"
    THEN SubSeq(line_buf, 1, Len(line_buf) - 1) ELSE line_buf

\* add_section
add_section(sections, section) ==
    IF \E i \in 1..Len(sections) : sections[i] = section THEN sections
    ELSE Append(sections, section)

\* the include depth check of parse_buffer, taking one level too many
include_depth_reached_late(include_depth) ==
    include_depth > INI_MAX_INCLUDE_DEPTH

\* the include depth check of parse_buffer
include_depth_reached(include_depth) ==
    include_depth >= INI_MAX_INCLUDE_DEPTH

\* zorya_ini_last_error: NULL while last_error.line is 0
zorya_ini_last_error(i) ==
    IF i.last_error.line = 0 THEN NULL ELSE i.last_error.line

\* the locals of a parse_buffer call that starts on data; old_base is the
\* base path its caller restores when it returns
ParseFrame(data, old_base) ==
    [lines |-> data, line_num |-> 0, current_section |-> <<>>,
     in_multiline |-> FALSE, pending_key |-> <<>>, value_buf |-> <<>>,
     old_base |-> old_base, returning |-> FALSE, result |-> ZORYA_INI_OK]

\* zorya_ini_new; the directory holds m and f
IniParseInit ==
    /\ ini = [state |-> "new", entries |-> <<>>, sections |-> <<>>,
              base_path |-> NullSeq, include_depth |-> 0, include_count |-> 0,
              last_error |-> [line |-> 0], err |-> ZORYA_INI_OK]
    /\ icalls = <<>>
    /\ \E m \in MainFiles, f \in IncludedFiles :
           ighost = [files |-> [p \in {f_m, f_f} |-> IF p = f_m THEN m ELSE f],
                     max_depth |-> 0, steps |-> 0]
    /\ T = NULL /\ ref = NULL /\ last = NULL /\ tablet = NULL /\ interned = NULL /\ weave = NULL /\ arena = NULL /\ cord = NULL
    /\ OrdinalIdle

\* zorya_ini_load(ini, filepath) up to its call of parse_buffer
IniLoad(filepath) ==
    /\ ini.state = "new"
    /\ LET data == fopen(ighost.files, filepath)
       IN IF data = NoFile
          THEN /\ ini' = [ini EXCEPT !.state = "loaded",
                                     !.base_path = get_directory(filepath),
                                     !.err = ZORYA_INI_ERROR_IO]
               /\ UNCHANGED icalls
          ELSE IF data = <<>>
          THEN /\ ini' = [ini EXCEPT !.state = "loaded",
                                     !.base_path = get_directory(filepath),
                                     !.err = ZORYA_INI_OK]
               /\ UNCHANGED icalls
          ELSE /\ ini' = [ini EXCEPT !.state = "loading",
                                     !.base_path = get_directory(filepath)]
               /\ icalls' = << ParseFrame(data, NullSeq) >>
    /\ ighost' = [ighost EXCEPT !.steps = @ + 1]
    /\ UNCHANGED <<dtvars, ovars>>

\* parse_buffer: one turn of its loop, on the next line of the innermost call
ParseBufferLine ==
    /\ icalls # <<>>
    /\ LET top == Len(icalls)
           f == icalls[top]
           line_num == f.line_num + 1
           line_buf == remove_cr(f.lines[line_num])
           continuation == /\ f.in_multiline
                           /\ line_buf # <<>>
                           /\ line_buf[1] \in Blanks
           content == SubSeq(line_buf, skip_ws(line_buf, 1), Len(line_buf))
           \* the end of a multi-line value saves the pending entry
           entries1 == IF f.in_multiline
                       THEN add_entry(ini.entries, f.current_section,
                                      f.pending_key, f.value_buf)
                       ELSE ini.entries
           f1 == [f EXCEPT !.line_num = line_num, !.in_multiline = FALSE,
                           !.pending_key = <<>>, !.value_buf = <<>>]
           l == parse_line(line_buf)
           inc_path == join_path(ini.base_path, l.s1)
           inc_data == fopen(ighost.files, inc_path)
       IN /\ ~f.returning /\ f.line_num < Len(f.lines)
          /\ IF continuation
             THEN /\ icalls' = [icalls EXCEPT
                       ![top].line_num = line_num,
                       ![top].value_buf =
                           IF Len(f.value_buf) > 0
                           THEN f.value_buf \o <<"\n">> \o content
                           ELSE content]
                  /\ ighost' = [ighost EXCEPT !.steps = @ + 1]
                  /\ UNCHANGED ini
             ELSE IF l.kind = "skip"
             THEN /\ icalls' = [icalls EXCEPT ![top] = f1]
                  /\ ini' = [ini EXCEPT !.entries = entries1]
                  /\ ighost' = [ighost EXCEPT !.steps = @ + 1]
             ELSE IF l.kind = "include"
             THEN IF include_depth_reached(ini.include_depth)
                  THEN /\ icalls' = [icalls EXCEPT ![top] =
                              [f1 EXCEPT !.returning = TRUE,
                                         !.result = ZORYA_INI_ERROR_CIRCULAR]]
                       /\ ini' = [ini EXCEPT !.entries = entries1]
                       /\ ighost' = [ighost EXCEPT !.steps = @ + 1]
                  ELSE IF inc_data = NoFile
                  THEN /\ icalls' = [icalls EXCEPT ![top] =
                              IF l.optional THEN f1
                              ELSE [f1 EXCEPT !.returning = TRUE,
                                              !.result = ZORYA_INI_ERROR_INCLUDE]]
                       /\ ini' = [ini EXCEPT !.entries = entries1]
                       /\ ighost' = [ighost EXCEPT !.steps = @ + 1]
                  ELSE /\ icalls' = Append([icalls EXCEPT ![top] = f1],
                                           ParseFrame(inc_data, ini.base_path))
                       /\ ini' = [ini EXCEPT
                                    !.entries = entries1,
                                    !.base_path = get_directory(inc_path),
                                    !.include_depth = @ + 1,
                                    !.include_count = @ + 1]
                       /\ ighost' = [ighost EXCEPT
                              !.steps = @ + 1,
                              !.max_depth = IF ini.include_depth + 1 > @
                                            THEN ini.include_depth + 1 ELSE @]
             ELSE IF l.kind = "section"
             THEN /\ icalls' = [icalls EXCEPT ![top] =
                                  [f1 EXCEPT !.current_section = l.s1]]
                  /\ ini' = [ini EXCEPT !.entries = entries1,
                                        !.sections = add_section(@, l.s1)]
                  /\ ighost' = [ighost EXCEPT !.steps = @ + 1]
             ELSE IF l.kind = "multiline"
             THEN /\ icalls' = [icalls EXCEPT ![top] =
                                  [f1 EXCEPT !.in_multiline = TRUE,
                                             !.pending_key = l.s1]]
                  /\ ini' = [ini EXCEPT !.entries = entries1]
                  /\ ighost' = [ighost EXCEPT !.steps = @ + 1]
             ELSE /\ icalls' = [icalls EXCEPT ![top] = f1]
                  /\ ini' = [ini EXCEPT !.entries =
                               add_entry(entries1, f.current_section, l.s1, l.s2)]
                  /\ ighost' = [ighost EXCEPT !.steps = @ + 1]
    /\ UNCHANGED <<dtvars, ovars>>

\* parse_buffer returns: after its last line (the trailing multi-line value,
\* and at the top level the post-parse pass), or with an error; to the
\* parse_buffer call that included the file, or to zorya_ini_load
ParseBufferReturn ==
    /\ icalls # <<>>
    /\ LET top == Len(icalls)
           f == icalls[top]
           entries1 == IF ~f.returning /\ f.in_multiline /\ f.pending_key # <<>>
                       THEN add_entry(ini.entries, f.current_section,
                                      f.pending_key, f.value_buf)
                       ELSE ini.entries
           inc_err == f.result
       IN /\ f.returning \/ f.line_num >= Len(f.lines)
          /\ IF top = 1
             THEN /\ icalls' = <<>>
                  /\ ini' = [ini EXCEPT !.state = "loaded", !.entries = entries1,
                                        !.err = inc_err]
             ELSE /\ icalls' = [SubSeq(icalls, 1, top - 1) EXCEPT
                       ![top - 1].returning = inc_err # ZORYA_INI_OK,
                       ![top - 1].result = inc_err]
                  /\ ini' = [ini EXCEPT !.entries = entries1,
                                        !.include_depth = @ - 1,
                                        !.base_path = f.old_base]
    /\ ighost' = [ighost EXCEPT !.steps = @ + 1]
    /\ UNCHANGED <<dtvars, ovars>>

IniParseNext ==
    \/ IniLoad(f_m)
    \/ ParseBufferLine
    \/ ParseBufferReturn

SpecIniParse == IniParseInit /\ [][IniParseNext]_avars

(***************************************************************************)
(* ZORYA-INI: what a load of the file m is expected to do                  *)
(***************************************************************************)
IniParseLoaded == ini.state = "loaded"

IsDirectiveLine(line) == starts_with(line, skip_ws(line, 1), <<":", ":">>)

\* a line that is not blank, not a comment, not a section header, not a
\* directive, does not continue a multi-line value, and has no '='
ClearlyMalformed(line) ==
    /\ line # <<>>
    /\ line[1] \notin Blanks \cup {"#", ";", "["}
    /\ ~IsDirectiveLine(line)
    /\ ~HasChar(line, "=")

\* the number of the first such line of a file, 0 when it has none
FirstMalformed(lines) ==
    LET bad == {k \in 1..Len(lines) : ClearlyMalformed(lines[k])}
    IN IF bad = {} THEN 0 ELSE CHOOSE k \in bad : \A j \in bad : k <= j

(***************************************************************************)
(* C12: syntax errors are reported.  When the file loaded holds a          *)
(* malformed line, with no directive before it, the load returns the       *)
(* syntax error and last_error carries the number of the first such line.  *)
(***************************************************************************)
C12_SyntaxErrorReported ==
    LET m == ighost.files[f_m]
        k == FirstMalformed(m)
    IN (/\ IniParseLoaded
        /\ k # 0
        /\ \A j \in 1..(k - 1) : ~IsDirectiveLine(m[j]))
       => /\ ini.err = ZORYA_INI_ERROR_SYNTAX
          /\ zorya_ini_last_error(ini) = k

\* the files a file includes, and whether it includes one that is missing
IncludesOf(lines) ==
    { parse_line(lines[k]).s1 : k \in {j \in 1..Len(lines) :
                                         parse_line(lines[j]).kind = "include"} }

\* the file loaded includes itself, directly or through f
IncludeCycle(files) ==
    \/ f_m \in IncludesOf(files[f_m])
    \/ /\ f_f \in IncludesOf(files[f_m])
       /\ IncludesOf(files[f_f]) \cap {f_m, f_f} # {}

\* no file of the directory includes a file that does not exist
NoMissingInclude(files) ==
    \A p \in DOMAIN files : IncludesOf(files[p]) \subseteq DOMAIN files

\* the steps a load can take: per parse_buffer call, a turn of the loop
\* for each line of a file, the return of each file it includes, and its
\* own return; in at most INI_MAX_INCLUDE_DEPTH + 1 calls at a time, begun
\* from every line of the calls above
MaxFileLines == MaxLines + 1
MaxLoadSteps ==
    1 + (INI_MAX_INCLUDE_DEPTH + 1) * MaxFileLines * (MaxFileLines + 3)

\* a step of the load can be taken: zorya_ini_load can be called, or the
\* innermost parse_buffer call has a line to read or returns
LoadCanStep ==
    \/ ini.state = "new"
    \/ /\ icalls # <<>>
       /\ LET f == icalls[Len(icalls)]
          IN \/ ~f.returning /\ f.line_num < Len(f.lines)
             \/ f.returning \/ f.line_num >= Len(f.lines)

(***************************************************************************)
(* C13: include cycles terminate.  The include depth never exceeds 16; it  *)
(* is 0 when the load has returned; the load of a file that includes       *)
(* itself, directly or through other files, returns the circular-reference *)
(* error; and every load returns: it takes a bounded number of steps and   *)
(* is never stuck before it has returned.                                  *)
(***************************************************************************)
C13_IncludeCyclesTerminate ==
    /\ ini.include_depth <= INI_MAX_INCLUDE_DEPTH
    /\ IniParseLoaded => ini.include_depth = 0
    /\ (IniParseLoaded /\ IncludeCycle(ighost.files)
           /\ NoMissingInclude(ighost.files))
         => ini.err = ZORYA_INI_ERROR_CIRCULAR
    /\ ighost.steps <= MaxLoadSteps
    /\ ~IniParseLoaded => LoadCanStep

\* a load went down the cycle to depth 16 and came back with the error
C13_Witness ==
    /\ IniParseLoaded
    /\ IncludeCycle(ighost.files)
    /\ ighost.max_depth = INI_MAX_INCLUDE_DEPTH
    /\ ini.err = ZORYA_INI_ERROR_CIRCULAR
    /\ ini.include_depth = 0


(***************************************************************************)
(* DAGGER: every operation of the table.  The client inserts the keys      *)
(* 1, 2, 3, ... in this order (the fill keys, the key that goes to its     *)
(* alternate slot, then NumRun keys of primary slot 19), and between them  *)
(* makes up to MaxExtras other calls: a set of a key it set before, a      *)
(* remove, a clear, a direct resize, or a set whose allocation fails.      *)
(***************************************************************************)
NumRun == 18
MaxExtras == 2

OpsKeys == 1..(NumFill + 1 + NumRun)
OpsExtraKeys == {1, NumFill + 1}
OpsCapacities == {16, 64}


\* The loop of dagger_clear and dagger_destroy that calls the destructor:
\* the values of the occupied slots, in the order of the slots
destroy_values(tab) ==
    LET slots == [i \in 1..tab.capacity |-> tab.entries[i - 1]]
        held == SelectSeq(slots, LAMBDA e : e.occupied /\ e.value # NULL)
    IN IF tab.value_destroy
       THEN [tab EXCEPT !.destroyed = @ \o [i \in 1..Len(held) |-> held[i].value]]
       ELSE tab

\* dagger_clear: the destructors, memset of the entries, the counters back
\* to 0
dagger_clear(tab) ==
    [destroy_values(tab)
        EXCEPT !.entries = [i \in 0..(tab.capacity - 1) |-> EmptyEntry],
               !.count = 0, !.max_psl = 0, !.cuckoo_count = 0]

\* dagger_destroy: the destructors; the entries and the table are freed
dagger_destroy(tab) == destroy_values(tab)

\* dagger_foreach with a callback that returns 0: the keys handed to the
\* callback, in the order of the calls; the function returns their number
RECURSIVE foreach_from(_, _, _)
foreach_from(tab, i, visited) ==
    IF i >= tab.capacity THEN visited
    ELSE foreach_from(tab, i + 1,
                      IF tab.entries[i].occupied
                      THEN Append(visited, tab.entries[i].key) ELSE visited)

dagger_foreach(tab) ==
    LET visited == foreach_from(tab, 0, <<>>)
    IN [count |-> Len(visited), visited |-> visited]

OpsLast(op, key, r, extras) ==
    [op |-> op, key |-> key, r |-> r, extras |-> extras,
     extra |-> extras > last.extras, visits |-> 0]

OpsInit ==
    /\ OrdinalIdle
    /\ IniIdle
    /\ T = dagger_create(32)
    /\ ref = [value |-> [k \in OpsKeys |-> NoValue], next |-> 1]
    /\ last = [op |-> "none", key |-> NULL, r |-> DAGGER_OK, extras |-> 0,
               extra |-> FALSE, visits |-> 0]
    /\ tablet = IdleTablet
    /\ interned = IdleInterned /\ weave = NULL /\ arena = NULL /\ cord = NULL

\* An extra call: one of the MaxExtras calls besides the ordered insertions
ExtraLeft == last.extras < MaxExtras

\* dagger_set(T, key, 1, value, replace); mem_ok: the allocations succeed
OpsSet(key, value, replace, mem_ok) ==
    /\ IF key = ref.next /\ mem_ok THEN value = 1 /\ replace
       ELSE /\ ExtraLeft
            /\ value = MaxValue
            /\ IF mem_ok THEN key \in OpsExtraKeys /\ key < ref.next
               ELSE key = ref.next /\ replace
    /\ \E res \in {dagger_set(T, key, KeyLen(key), value, replace, mem_ok, mem_ok)} :
       LET extra == ~(key = ref.next /\ mem_ok)
       IN /\ T' = res.T
          /\ ref' = [value |-> IF res.r = DAGGER_OK
                               THEN [ref.value EXCEPT ![key] = value]
                               ELSE ref.value,
                     next |-> IF key = ref.next /\ res.r = DAGGER_OK
                              THEN ref.next + 1 ELSE ref.next]
          /\ last' = OpsLast(IF replace THEN "set" ELSE "set0", key, res.r,
                             IF extra THEN last.extras + 1 ELSE last.extras)
    /\ UNCHANGED <<tablet, interned, weave, arena, cord, ovars, ivars>>

\* dagger_remove(T, key, 1)
OpsRemove(key) ==
    /\ ExtraLeft
    /\ key \in OpsExtraKeys /\ key < ref.next
    /\ \E res \in {dagger_remove(T, key, KeyLen(key))} :
          /\ T' = res.T
          /\ ref' = [ref EXCEPT !.value[key] = NoValue]
          /\ last' = OpsLast("remove", key, res.r, last.extras + 1)
    /\ UNCHANGED <<tablet, interned, weave, arena, cord, ovars, ivars>>

\* dagger_clear(T)
OpsClear ==
    /\ ExtraLeft
    /\ T' = dagger_clear(T)
    /\ ref' = [ref EXCEPT !.value = [k \in OpsKeys |-> NoValue]]
    /\ last' = OpsLast("clear", NULL, DAGGER_OK, last.extras + 1)
    /\ UNCHANGED <<tablet, interned, weave, arena, cord, ovars, ivars>>

\* dagger_resize(T, new_capacity), called by the client
OpsResize(new_capacity, mem_ok) ==
    /\ ExtraLeft
    /\ \E res \in {dagger_resize(T, new_capacity, mem_ok)} :
          /\ T' = res.T
          /\ last' = OpsLast("resize", NULL, res.r, last.extras + 1)
    /\ UNCHANGED <<ref, tablet, interned, weave, arena, cord, ovars, ivars>>

\* dagger_foreach(T, fn, ctx) with fn returning 0, after an extra call
OpsForeach ==
    /\ last.extra /\ last.op # "foreach"
    /\ last' = [last EXCEPT !.op = "foreach", !.key = NULL, !.r = DAGGER_OK,
                            !.visits = dagger_foreach(T).count]
    /\ UNCHANGED <<T, ref, tablet, interned, weave, arena, cord, ovars, ivars>>

OpsNext ==
    \/ \E key \in OpsKeys, value \in Values, replace \in BOOLEAN, mem_ok \in BOOLEAN :
            OpsSet(key, value, replace, mem_ok)
    \/ \E key \in OpsKeys : OpsRemove(key)
    \/ OpsClear
    \/ \E new_capacity \in OpsCapacities, mem_ok \in BOOLEAN :
            OpsResize(new_capacity, mem_ok)
    \/ OpsForeach

SpecDaggerOps == OpsInit /\ [][OpsNext]_dvars

\* The keys dagger_get finds in tab, each with the value it returns
Findable(tab) ==
    { key \in OpsKeys : dagger_get(tab, key, KeyLen(key)).r = DAGGER_OK }

\* The step is a dagger_resize that returned OK: a direct call, or one that a
\* dagger_set made before it inserted its key
ResizedOK ==
    /\ T'.resize_count > T.resize_count
    /\ last'.r = DAGGER_OK

(***************************************************************************)
(* C14: a resize keeps the entries.  After a dagger_resize that returns    *)
(* OK, called directly or by dagger_set, every key that dagger_get found   *)
(* before is still found with the same value (but for the key the set      *)
(* itself writes), and a direct resize leaves count unchanged.             *)
(***************************************************************************)
C14_ResizeKeepsEntries ==
    [][ResizedOK =>
          /\ \A key \in Findable(T) :
                 (last'.op = "resize" \/ key # last'.key) =>
                     dagger_get(T', key, KeyLen(key)) = dagger_get(T, key, KeyLen(key))
          /\ last'.op = "resize" => T'.count = T.count]_dvars


\* The occupied slots of tab
Occupied(tab) == { i \in 0..(tab.capacity - 1) : tab.entries[i].occupied }

(***************************************************************************)
(* C15: foreach visits count entries.  After any sequence of sets,         *)
(* removes, clears and resizes, successful or failed, dagger_foreach with  *)
(* a callback that never stops visits exactly T->count entries: count is   *)
(* the number of occupied slots, and no key is visited twice.              *)
(***************************************************************************)
C15_ForeachVisitsCount ==
    LET f == dagger_foreach(T)
    IN /\ f.count = T.count
       /\ T.count = Cardinality(Occupied(T))
       /\ \A i, j \in 1..Len(f.visited) :
              i # j => f.visited[i] # f.visited[j]


(***************************************************************************)
(* C16: bounded lookup.  In every state a single dagger_get, of a key that *)
(* is present or absent, examines at most 2 * (DAGGER_PSL_THRESHOLD + 1)   *)
(* slots in total.                                                         *)
(***************************************************************************)
C16_BoundedLookup ==
    \A key \in OpsKeys :
        dagger_get(T, key, KeyLen(key)).probes <= 2 * (DAGGER_PSL_THRESHOLD + 1)


\* The step is the call dagger_set(key, value, replace = 0)
NonReplacingSet(key) ==
    /\ last'.op = "set0"
    /\ last'.key = key
    /\ last'.extras = last.extras + 1

(***************************************************************************)
(* C18: non-replacing insert.  dagger_set(k, v, replace = 0) on a key that *)
(* is in the table returns DAGGER_EXISTS, does not change count and leaves *)
(* the value dagger_get returns for k unchanged; it returns DAGGER_OK only *)
(* if k was absent.                                                        *)
(***************************************************************************)
C18_NonReplacingInsert ==
    [][\A key \in OpsKeys :
          NonReplacingSet(key) =>
              LET present == SlotsOf(T, key) # {}
              IN /\ present =>
                      /\ last'.r = DAGGER_EXISTS
                      /\ T'.count = T.count
                      /\ dagger_get(T', key, KeyLen(key)).value
                             = dagger_get(T, key, KeyLen(key)).value
                 /\ last'.r = DAGGER_OK => ~present]_dvars


(***************************************************************************)
(* DAGGER: a full table met during insertion.  In a table of 1024 slots    *)
(* the client sets the far keys in order: the fill keys, the run keys,     *)
(* then FarX, whose primary run is NumFill slots long and whose alternate  *)
(* slot starts the run of RunLen occupied slots.                           *)
(***************************************************************************)


\* The n-th key the client sets
FarKeyAt(n) ==
    IF n <= NumFill THEN FarBase + n
    ELSE IF n <= NumFill + RunLen THEN RunBase + (n - NumFill - 1)
    ELSE FarX

FarCount == NumFill + RunLen + 1

FullInit ==
    /\ OrdinalIdle
    /\ IniIdle
    /\ T = dagger_create(1024)
    /\ ref = [value |-> NoValue, next |-> 1]
    /\ last = [op |-> "none", key |-> NULL, r |-> DAGGER_OK]
    /\ tablet = IdleTablet
    /\ interned = IdleInterned /\ weave = NULL /\ arena = NULL /\ cord = NULL

\* dagger_set(T, key, 1, value, replace) of the next far key; the
\* allocations succeed
FullSet(value, replace) ==
    /\ ref.next <= FarCount
    /\ LET key == FarKeyAt(ref.next)
           res == dagger_set(T, key, KeyLen(key), value, replace, TRUE, TRUE)
       IN /\ T' = res.T
          /\ ref' = [value |-> value, next |-> ref.next + 1]
          /\ last' = [op |-> IF replace THEN "set" ELSE "set0", key |-> key,
                      r |-> res.r]
    /\ UNCHANGED <<tablet, interned, weave, arena, cord, ovars, ivars>>

\* dagger_get(T, key, 1, &value) of the key set last
FullGet ==
    /\ last.op \in {"set", "set0"}
    /\ last' = [op |-> "get", key |-> last.key,
                r |-> dagger_get(T, last.key, KeyLen(last.key)).r]
    /\ UNCHANGED <<T, ref, tablet, interned, weave, arena, cord, ovars, ivars>>

FullNext ==
    \/ \E replace \in BOOLEAN : FullSet(1, replace)
    \/ FullGet

SpecDaggerFull == FullInit /\ [][FullNext]_dvars

\* The step is a dagger_set
SetStep == ref'.next = ref.next + 1

\* The step is a dagger_set that resized the table although count was under
\* the load threshold: the resize-and-retry after DAGGER_ERROR_FULL
FullRecovery ==
    /\ SetStep
    /\ T'.resize_count > T.resize_count
    /\ T.count < (T.capacity * DAGGER_LOAD_FACTOR_PERCENT) \div 100

(***************************************************************************)
(* C17: TABLE_FULL never surfaces.  With allocations that succeed          *)
(* dagger_set never returns DAGGER_ERROR_FULL, and when the insertion met  *)
(* a full table and was recovered by resize-and-retry, every entry that    *)
(* was in the table before the call is in it afterwards, with its value.   *)
(***************************************************************************)
C17_TableFullRecovered ==
    [][/\ SetStep => last'.r # DAGGER_ERROR_FULL
       /\ FullRecovery =>
              \A i \in Occupied(T) :
                  \E j \in Occupied(T') :
                      /\ T'.entries[j].key = T.entries[i].key
                      /\ T'.entries[j].value = T.entries[i].value]_dvars


(***************************************************************************)
(* Weave (weave.c): a Weave object is {len, cap, flags, data[cap + 1]}.    *)
(* data is a sequence, data[i + 1] being the C byte data[i]; a byte that   *)
(* was allocated and never written is Indeterminate.  A C string argument  *)
(* is {null, bytes}: a NULL pointer, or the bytes before its NUL.          *)
(***************************************************************************)
WEAVE_INITIAL_CAP == 32
WEAVE_FLAG_NONE == {}
WEAVE_FLAG_INTERNED == "INTERNED"
WEAVE_FLAG_READONLY == "READONLY"

Indeterminate == 0 - 1
NUL == 0

WEAVE_NEXT_POW2(x) == IF x <= 1 THEN 1 ELSE Pow2AtLeast(1, x)

weave_grow_cap(current, needed) ==
    IF needed <= 64 THEN 64
    ELSE LET new_cap == WEAVE_NEXT_POW2(needed)
         IN IF new_cap < current * 2 THEN WEAVE_NEXT_POW2(current * 2)
            ELSE new_cap

safe_strlen(s) == IF s.null THEN 0 ELSE Len(s.bytes)

\* malloc(n) / the bytes realloc adds: n bytes never written
Uninitialized(n) == [i \in 1..n |-> Indeterminate]

\* memcpy(data + at, bytes, Len(bytes))
memcpy(data, at, bytes) ==
    [i \in 1..Len(data) |->
        IF i > at /\ i <= at + Len(bytes) THEN bytes[i - at] ELSE data[i]]

\* realloc(w, weave_alloc_size(new_cap)): the first min(old, new) bytes kept
realloc_data(data, new_cap) ==
    [i \in 1..(new_cap + 1) |-> IF i <= Len(data) THEN data[i] ELSE Indeterminate]

Immutable(w) ==
    WEAVE_FLAG_INTERNED \in w.flags \/ WEAVE_FLAG_READONLY \in w.flags

ReturnsNull(w) == [obj |-> w, ret |-> "NULL"]
ReturnsW(w) == [obj |-> w, ret |-> "w"]
ReturnsVoid(w) == [obj |-> w, ret |-> "void"]

\* weave_new_len(s, len); mem_ok: malloc succeeds
weave_new_len(s, len, mem_ok) ==
    LET cap == IF len < WEAVE_INITIAL_CAP THEN WEAVE_INITIAL_CAP
               ELSE WEAVE_NEXT_POW2(len)
        data0 == Uninitialized(cap + 1)
        data1 == IF ~s.null /\ len > 0
                 THEN memcpy(data0, 0, SubSeq(s.bytes, 1, len)) ELSE data0
    IN IF ~mem_ok THEN ReturnsNull([len |-> 0, cap |-> 0, flags |-> WEAVE_FLAG_NONE,
                                    data |-> <<>>])
       ELSE ReturnsW([len |-> len, cap |-> cap, flags |-> WEAVE_FLAG_NONE,
                      data |-> memcpy(data1, len, <<NUL>>)])

weave_new(s, mem_ok) == weave_new_len(s, safe_strlen(s), mem_ok)

\* weave_with_cap(cap); mem_ok: malloc succeeds
weave_with_cap(cap, mem_ok) ==
    LET c == IF cap < WEAVE_INITIAL_CAP THEN WEAVE_INITIAL_CAP ELSE cap
    IN IF ~mem_ok THEN ReturnsNull([len |-> 0, cap |-> 0, flags |-> WEAVE_FLAG_NONE,
                                    data |-> <<>>])
       ELSE ReturnsW([len |-> 0, cap |-> c, flags |-> WEAVE_FLAG_NONE,
                      data |-> memcpy(Uninitialized(c + 1), 0, <<NUL>>)])

\* tablet_intern_len's new Weave: cap = len, INTERNED | READONLY
interned_weave(s, len) ==
    [len |-> len, cap |-> len,
     flags |-> {WEAVE_FLAG_INTERNED, WEAVE_FLAG_READONLY},
     data |-> memcpy(IF ~s.null /\ len > 0
                     THEN memcpy(Uninitialized(len + 1), 0, SubSeq(s.bytes, 1, len))
                     ELSE Uninitialized(len + 1),
                     len, <<NUL>>)]

\* weave_ensure_cap(w, additional); mem_ok: realloc succeeds
weave_ensure_cap(w, additional, mem_ok) ==
    IF Immutable(w) THEN ReturnsNull(w)
    ELSE LET needed == w.len + additional
         IN IF needed <= w.cap THEN ReturnsW(w)
            ELSE LET new_cap == weave_grow_cap(w.cap, needed)
                 IN IF ~mem_ok THEN ReturnsNull(w)
                    ELSE ReturnsW([w EXCEPT !.cap = new_cap,
                                            !.data = realloc_data(w.data, new_cap)])

\* weave_append_len(w, s, len)
weave_append_len(w, s, len, mem_ok) ==
    IF s.null \/ len = 0 THEN ReturnsW(w)
    ELSE LET e == weave_ensure_cap(w, len, mem_ok)
         IN IF e.ret = "NULL" THEN e
            ELSE LET w1 == e.obj
                     data1 == memcpy(w1.data, w1.len, SubSeq(s.bytes, 1, len))
                 IN ReturnsW([w1 EXCEPT !.len = w1.len + len,
                                        !.data = memcpy(data1, w1.len + len, <<NUL>>)])

weave_append(w, s, mem_ok) == weave_append_len(w, s, safe_strlen(s), mem_ok)

\* weave_append_char(w, c)
weave_append_char(w, c, mem_ok) ==
    weave_append_len(w, [null |-> FALSE, bytes |-> <<c>>], 1, mem_ok)

\* weave_append_weave(w, other); other is NULL, or data and len of a Weave.
\* When other is w itself and realloc moves the block, the bytes are copied
\* from the freed block: they are indeterminate.
weave_append_weave(w, other, is_self, moved, mem_ok) ==
    IF other.null THEN ReturnsW(w)
    ELSE LET grows == ~Immutable(w) /\ w.len + Len(other.bytes) > w.cap
             src == IF is_self /\ grows /\ moved
                    THEN [null |-> FALSE, bytes |-> Uninitialized(Len(other.bytes))]
                    ELSE other
         IN weave_append_len(w, src, Len(other.bytes), mem_ok)

\* weave_prepend_len(w, s, len)
weave_prepend_len(w, s, len, mem_ok) ==
    IF s.null \/ len = 0 THEN ReturnsW(w)
    ELSE LET e == weave_ensure_cap(w, len, mem_ok)
         IN IF e.ret = "NULL" THEN e
            ELSE LET w1 == e.obj
                     moved == memcpy(w1.data, len, SubSeq(w1.data, 1, w1.len + 1))
                 IN ReturnsW([w1 EXCEPT !.len = w1.len + len,
                                        !.data = memcpy(moved, 0, SubSeq(s.bytes, 1, len))])

weave_prepend(w, s, mem_ok) == weave_prepend_len(w, s, safe_strlen(s), mem_ok)

\* weave_clear(w)
weave_clear(w) ==
    IF Immutable(w) THEN ReturnsVoid(w)
    ELSE ReturnsVoid([w EXCEPT !.len = 0, !.data = memcpy(w.data, 0, <<NUL>>)])

\* weave_truncate without its w->data[len] = 0
weave_truncate_unterminated(w, len) ==
    IF Immutable(w) \/ len >= w.len THEN ReturnsVoid(w)
    ELSE ReturnsVoid([w EXCEPT !.len = len])

\* weave_truncate(w, len)
weave_truncate(w, len) ==
    IF Immutable(w) \/ len >= w.len THEN ReturnsVoid(w)
    ELSE ReturnsVoid([w EXCEPT !.len = len,
                               !.data = memcpy(w.data, len, <<NUL>>)])

\* weave_reserve(w, min_cap)
weave_reserve(w, min_cap, mem_ok) ==
    IF min_cap <= w.cap THEN ReturnsW(w)
    ELSE weave_ensure_cap(w, min_cap - w.len, mem_ok)

\* weave_shrink(w); mem_ok: realloc succeeds
weave_shrink(w, mem_ok) ==
    IF WEAVE_FLAG_INTERNED \in w.flags THEN ReturnsW(w)
    ELSE IF w.len = w.cap THEN ReturnsW(w)
    ELSE IF ~mem_ok THEN ReturnsW(w)
    ELSE ReturnsW([w EXCEPT !.cap = w.len,
                            !.data = SubSeq(w.data, 1, w.len + 1)])

\* weave_append_fmt(w, fmt, ...): fmt is NULL, or out the bytes vsnprintf
\* produces for it (size = Len(out)); size_ok: vsnprintf's size is >= 0
weave_append_fmt(w, fmt, size_ok, mem_ok) ==
    IF fmt.null \/ ~size_ok THEN ReturnsW(w)
    ELSE LET size == Len(fmt.bytes)
             e == weave_ensure_cap(w, size, mem_ok)
         IN IF e.ret = "NULL" THEN e
            ELSE LET w1 == e.obj
                 IN ReturnsW([w1 EXCEPT
                       !.len = w1.len + size,
                       !.data = memcpy(w1.data, w1.len, Append(fmt.bytes, NUL))])


(***************************************************************************)
(* Weave: the calls a client makes.  The client creates one Weave w and    *)
(* has the Weave iw that a Tablet interned; it then makes up to            *)
(* MaxWeaveOps mutating calls on either.  weave.created says that w was    *)
(* created; weave.obj[t] is the object behind the pointer t.               *)
(***************************************************************************)
MaxWeaveOps == 2
LongLen == 31

CNull == [null |-> TRUE, bytes |-> <<>>]
CStr(bytes) == [null |-> FALSE, bytes |-> bytes]
LongBytes == [i \in 1..LongLen |-> 1]

WeaveStrings == {CNull, CStr(<<>>), CStr(<<1>>), CStr(<<2, 1>>), CStr(LongBytes)}
\* (s, len) arguments: len bytes at s, which may include a NUL
WeaveBuffers ==
    {<<s, safe_strlen(s)>> : s \in WeaveStrings}
        \cup {<<CStr(<<2, 1>>), 0>>, <<CStr(<<1, NUL, 2>>), 3>>}
WeaveCaps == {0, 40, 65, 129}
WeaveLens == {0, 1, 64}
WeaveChars == {NUL, 2}
WeaveTargets == {"w", "iw"}

NoWeave == [len |-> 0, cap |-> 0, flags |-> WEAVE_FLAG_NONE, data |-> <<NUL>>]

WeaveIdle ==
    /\ T = NULL /\ ref = NULL /\ last = NULL
    /\ tablet = NULL /\ interned = NULL /\ arena = NULL /\ cord = NULL

WeaveInit ==
    /\ OrdinalIdle
    /\ IniIdle
    /\ WeaveIdle
    /\ \E s \in {CStr(<<>>), CStr(<<1, 2>>)} :
           weave = [created |-> FALSE,
                    obj |-> [t \in WeaveTargets |->
                               IF t = "iw" THEN interned_weave(s, Len(s.bytes))
                               ELSE NoWeave],
                    op |-> "none", target |-> "w", ret |-> "void", n |-> 0]

\* A creation call returned res
Created(op, res) ==
    /\ ~weave.created
    /\ weave' = [weave EXCEPT !.created = res.ret # "NULL",
                              !.obj["w"] = IF res.ret = "NULL" THEN @ ELSE res.obj,
                              !.op = op, !.target = "w", !.ret = res.ret]
    /\ UNCHANGED <<T, ref, last, tablet, interned, arena, cord, ovars, ivars>>

\* A mutating call on the Weave t returned res
Mutated(t, op, res) ==
    /\ weave.n < MaxWeaveOps
    /\ weave' = [weave EXCEPT !.obj[t] = res.obj, !.op = op, !.target = t,
                              !.ret = res.ret, !.n = @ + 1]
    /\ UNCHANGED <<T, ref, last, tablet, interned, arena, cord, ovars, ivars>>

\* The Weaves a client has
Has(t) == t = "iw" \/ weave.created

WeaveNew(s, mem_ok) == Created("new", weave_new(s, mem_ok))

WeaveNewLen(s, len, mem_ok) == Created("new_len", weave_new_len(s, len, mem_ok))

WeaveWithCap(cap, mem_ok) == Created("with_cap", weave_with_cap(cap, mem_ok))

WeaveAppend(t, s, mem_ok) ==
    Has(t) /\ Mutated(t, "append", weave_append(weave.obj[t], s, mem_ok))

WeaveAppendLen(t, s, len, mem_ok) ==
    Has(t) /\ Mutated(t, "append_len", weave_append_len(weave.obj[t], s, len, mem_ok))

WeaveAppendChar(t, c, mem_ok) ==
    Has(t) /\ Mutated(t, "append_char", weave_append_char(weave.obj[t], c, mem_ok))

\* weave_append_weave(t, other), other being NULL ("null") or a Weave
WeaveAppendWeave(t, other, moved, mem_ok) ==
    /\ Has(t)
    /\ IF other = "null" THEN TRUE ELSE Has(other)
    /\ LET o == IF other = "null" THEN CNull
                ELSE CStr(SubSeq(weave.obj[other].data, 1, weave.obj[other].len))
       IN Mutated(t, "append_weave",
                  weave_append_weave(weave.obj[t], o, other = t, moved, mem_ok))

WeaveAppendFmt(t, fmt, size_ok, mem_ok) ==
    Has(t) /\ Mutated(t, "append_fmt",
                      weave_append_fmt(weave.obj[t], fmt, size_ok, mem_ok))

WeavePrepend(t, s, mem_ok) ==
    Has(t) /\ Mutated(t, "prepend", weave_prepend(weave.obj[t], s, mem_ok))

WeaveClear(t) == Has(t) /\ Mutated(t, "clear", weave_clear(weave.obj[t]))

WeaveTruncate(t, len) ==
    Has(t) /\ Mutated(t, "truncate", weave_truncate(weave.obj[t], len))

WeaveReserve(t, min_cap, mem_ok) ==
    Has(t) /\ Mutated(t, "reserve", weave_reserve(weave.obj[t], min_cap, mem_ok))

WeaveShrink(t, mem_ok) ==
    Has(t) /\ Mutated(t, "shrink", weave_shrink(weave.obj[t], mem_ok))

WeaveNext ==
    \/ \E s \in WeaveStrings, mem_ok \in BOOLEAN : WeaveNew(s, mem_ok)
    \/ \E b \in WeaveBuffers \cup {<<CNull, 3>>}, mem_ok \in BOOLEAN :
            WeaveNewLen(b[1], b[2], mem_ok)
    \/ \E cap \in WeaveCaps, mem_ok \in BOOLEAN : WeaveWithCap(cap, mem_ok)
    \/ \E t \in WeaveTargets, s \in WeaveStrings, mem_ok \in BOOLEAN :
            WeaveAppend(t, s, mem_ok)
    \/ \E t \in WeaveTargets, b \in WeaveBuffers, mem_ok \in BOOLEAN :
            WeaveAppendLen(t, b[1], b[2], mem_ok)
    \/ \E t \in WeaveTargets, c \in WeaveChars, mem_ok \in BOOLEAN :
            WeaveAppendChar(t, c, mem_ok)
    \/ \E t \in WeaveTargets, other \in WeaveTargets \cup {"null"},
          moved \in BOOLEAN, mem_ok \in BOOLEAN :
            WeaveAppendWeave(t, other, moved, mem_ok)
    \/ \E t \in WeaveTargets, fmt \in WeaveStrings, size_ok \in BOOLEAN,
          mem_ok \in BOOLEAN : WeaveAppendFmt(t, fmt, size_ok, mem_ok)
    \/ \E t \in WeaveTargets, s \in WeaveStrings, mem_ok \in BOOLEAN :
            WeavePrepend(t, s, mem_ok)
    \/ \E t \in WeaveTargets : WeaveClear(t)
    \/ \E t \in WeaveTargets, len \in WeaveLens : WeaveTruncate(t, len)
    \/ \E t \in WeaveTargets, min_cap \in WeaveCaps, mem_ok \in BOOLEAN :
            WeaveReserve(t, min_cap, mem_ok)
    \/ \E t \in WeaveTargets, mem_ok \in BOOLEAN : WeaveShrink(t, mem_ok)

SpecWeave == WeaveInit /\ [][WeaveNext]_avars


\* The step is a mutating call on the Weave t
MutatingCall(t) == weave'.n = weave.n + 1 /\ weave'.target = t

\* len bytes of content
Content(w) == SubSeq(w.data, 1, w.len)

\* The mutating calls that return a Weave pointer, NULL being the error
ReturnsPointer(op) == op \notin {"clear", "truncate"}

(***************************************************************************)
(* C19: immutability.  Every mutating call (append, append_len,            *)
(* append_char, append_weave, append_fmt, prepend, clear, truncate,        *)
(* reserve, shrink) on a Weave flagged INTERNED or READONLY fails: it      *)
(* returns NULL where it returns a pointer, and leaves len, cap and the    *)
(* content unchanged.                                                      *)
(***************************************************************************)
C19_ImmutableWeave ==
    [][\A t \in WeaveTargets :
          (MutatingCall(t) /\ Immutable(weave.obj[t])) =>
              /\ ReturnsPointer(weave'.op) => weave'.ret = "NULL"
              /\ weave'.obj[t].len = weave.obj[t].len
              /\ weave'.obj[t].cap = weave.obj[t].cap
              /\ Content(weave'.obj[t]) = Content(weave.obj[t])]_avars

(***************************************************************************)
(* C20: Weave invariant.  After any sequence of creation and mutation      *)
(* calls, every Weave the client holds has len <= cap and data[len] = 0,   *)
(* in an allocation of cap + 1 data bytes.                                 *)
(***************************************************************************)
C20_WeaveInvariant ==
    \A t \in WeaveTargets :
        Has(t) =>
            LET w == weave.obj[t]
            IN /\ w.len <= w.cap
               /\ Len(w.data) = w.cap + 1
               /\ w.data[w.len + 1] = NUL

\* w has grown twice, by calls that returned it
C20_Witness ==
    /\ weave.created
    /\ weave.n = MaxWeaveOps
    /\ weave.ret = "w"
    /\ weave.obj["w"].len > 2 * WEAVE_INITIAL_CAP
    /\ weave.obj["w"].cap >= weave.obj["w"].len

(***************************************************************************)
(* Arena (zorya_arena.h) and the temporary scope of its binding            *)
(* (weave_napi.c).  size_t is SIZE_WIDTH bits wide here; sizes and offsets *)
(* wrap modulo SIZE_MOD as the unsigned arithmetic of the code does.  A    *)
(* chunk is [id, capacity, used, peak]; the chunk list is the sequence     *)
(* arena.chunks, first its head, and current an index into it; id is the   *)
(* address malloc gave.                                                    *)
(***************************************************************************)
SIZE_WIDTH == 20
SIZE_MOD == 2 ^ SIZE_WIDTH
ARENA_DEFAULT_CHUNK_SIZE == 65536
ARENA_DEFAULT_ALIGNMENT == 8

arena_align(size) ==
    LET sum == (size + ARENA_DEFAULT_ALIGNMENT - 1) % SIZE_MOD
    IN sum - (sum % ARENA_DEFAULT_ALIGNMENT)

\* arena_chunk_create at the address id
arena_chunk_create(min_capacity, id) ==
    [id |-> id, capacity |-> min_capacity, used |-> 0, peak |-> 0]

\* arena_create with both allocations succeeding; the chunk is at address id
arena_create(chunk_size, id) ==
    LET size == IF chunk_size = 0 THEN ARENA_DEFAULT_CHUNK_SIZE ELSE chunk_size
    IN [chunks |-> <<arena_chunk_create(size, id)>>,
        current |-> 1,
        chunk_size |-> size,
        alignment |-> ARENA_DEFAULT_ALIGNMENT,
        total_allocated |-> 0,
        total_capacity |-> size,
        peak_allocated |-> 0,
        chunk_count |-> 1,
        alloc_count |-> 0]

NoPointer == [ret |-> "NULL", chunk |-> NULL, off |-> 0, size |-> 0]

\* arena_alloc(arena, size): the arena after the call and the pointer
\* returned, as [chunk address, offset in data[], aligned size].  mem_ok is
\* the outcome of the malloc of a new chunk, id its address
arena_alloc(a, size, mem_ok, id) ==
    IF size = 0 THEN [a |-> a, p |-> NoPointer]
    ELSE
    LET aligned == arena_align(size)
        chunk == a.chunks[a.current]
    IN IF (chunk.used + aligned) % SIZE_MOD <= chunk.capacity
       THEN LET total == (a.total_allocated + aligned) % SIZE_MOD
            IN [a |-> [a EXCEPT
                         !.chunks[a.current].used = (@ + aligned) % SIZE_MOD,
                         !.total_allocated = total,
                         !.alloc_count = @ + 1,
                         !.peak_allocated = IF total > @ THEN total ELSE @],
                p |-> [ret |-> "ptr", chunk |-> chunk.id, off |-> chunk.used,
                       size |-> aligned]]
       ELSE
       LET new_chunk_size == IF aligned > a.chunk_size THEN aligned
                             ELSE a.chunk_size
       IN IF ~mem_ok THEN [a |-> a, p |-> NoPointer]
          ELSE [a |-> [a EXCEPT
                         !.chunks = Append(SubSeq(a.chunks, 1, a.current),
                                           [arena_chunk_create(new_chunk_size, id)
                                            EXCEPT !.used = aligned]),
                         !.current = @ + 1,
                         !.total_capacity = (@ + new_chunk_size) % SIZE_MOD,
                         !.chunk_count = @ + 1,
                         !.total_allocated = (@ + aligned) % SIZE_MOD],
                p |-> [ret |-> "ptr", chunk |-> id, off |-> 0, size |-> aligned]]

\* a reset that leaves the first chunk's offset where it is
arena_reset_keeping_used(a) ==
    [a EXCEPT !.chunks = <<[a.chunks[1] EXCEPT !.peak = 0]>>,
              !.current = 1,
              !.total_allocated = 0,
              !.total_capacity = a.chunks[1].capacity,
              !.chunk_count = 1,
              !.alloc_count = 0]

\* arena_reset: the chunks after the first are freed
arena_reset(a) ==
    [a EXCEPT !.chunks = <<[a.chunks[1] EXCEPT !.used = 0, !.peak = 0]>>,
              !.current = 1,
              !.total_allocated = 0,
              !.total_capacity = a.chunks[1].capacity,
              !.chunk_count = 1,
              !.alloc_count = 0]

\* The addresses of the chunks of the list
ChunkIds(a) == { a.chunks[i].id : i \in 1..Len(a.chunks) }

(***************************************************************************)
(* A client of one arena: it calls arena_alloc, and opens and closes a     *)
(* temporary scope and resets as the binding does (ArenaWrapper: arena,    *)
(* temp_chunk, temp_used).  live is the set of chunk addresses malloc gave *)
(* and free has not taken back; regions are the pointers returned that are *)
(* still valid, scope the arena as it was at tempBegin.                    *)
(***************************************************************************)
MaxArenaOps == 4
ArenaSizes == {1, 16, 24, SIZE_MOD - 8}
ArenaChunkSizes == {0, 16, 20}

ArenaIdle ==
    /\ T = NULL /\ ref = NULL /\ last = NULL /\ tablet = NULL
    /\ interned = NULL /\ weave = NULL /\ cord = NULL

\* arena_js_create(size)
ArenaInit ==
    /\ OrdinalIdle
    /\ IniIdle
    /\ ArenaIdle
    /\ \E chunk_size \in ArenaChunkSizes :
          arena = [a |-> arena_create(chunk_size, 1),
                   temp_chunk |-> NULL, temp_used |-> 0,
                   live |-> {1}, next_id |-> 2,
                   regions |-> <<>>, mark |-> 0, scope |-> NULL,
                   op |-> "create", p |-> NoPointer, n |-> 0]

\* arena_alloc(arena, size)
ArenaAlloc(size, mem_ok) ==
    /\ arena.n < MaxArenaOps
    /\ \E res \in {arena_alloc(arena.a, size, mem_ok, arena.next_id)} :
         LET made == Len(res.a.chunks) > Len(arena.a.chunks)
         IN arena' = [arena EXCEPT
                        !.a = res.a,
                        !.live = IF made THEN @ \cup {arena.next_id} ELSE @,
                        !.next_id = IF made THEN @ + 1 ELSE @,
                        !.regions = IF res.p.ret = "ptr" THEN Append(@, res.p)
                                    ELSE @,
                        !.op = "alloc", !.p = res.p, !.n = @ + 1]
    /\ UNCHANGED <<T, ref, last, tablet, interned, weave, cord, ovars, ivars>>

\* arena_js_temp_begin
ArenaTempBegin ==
    /\ arena.n < MaxArenaOps
    /\ arena' = [arena EXCEPT
                   !.temp_chunk = arena.a.current,
                   !.temp_used = arena.a.chunks[arena.a.current].used,
                   !.mark = Len(arena.regions),
                   !.scope = [a |-> arena.a, live |-> arena.live],
                   !.op = "temp_begin", !.p = NoPointer, !.n = @ + 1]
    /\ UNCHANGED <<T, ref, last, tablet, interned, weave, cord, ovars, ivars>>

\* arena_js_temp_end: frees the chunks after temp_chunk and rewinds it
ArenaTempEnd ==
    /\ arena.n < MaxArenaOps
    /\ arena.temp_chunk # NULL
    /\ LET kept == SubSeq(arena.a.chunks, 1, arena.temp_chunk)
           rewound == [kept EXCEPT ![arena.temp_chunk].used = arena.temp_used]
       IN arena' = [arena EXCEPT
                      !.a = [arena.a EXCEPT !.chunks = rewound,
                                            !.current = arena.temp_chunk],
                      !.live = { rewound[i].id : i \in 1..Len(rewound) },
                      !.temp_chunk = NULL, !.temp_used = 0,
                      !.regions = SubSeq(@, 1, arena.mark),
                      !.op = "temp_end", !.p = NoPointer, !.n = @ + 1]
    /\ UNCHANGED <<T, ref, last, tablet, interned, weave, cord, ovars, ivars>>

\* arena_js_reset: arena_reset, and the temporary scope is forgotten
ArenaReset ==
    /\ arena.n < MaxArenaOps
    /\ arena' = [arena EXCEPT
                   !.a = arena_reset(arena.a),
                   !.live = {arena.a.chunks[1].id},
                   !.temp_chunk = NULL, !.temp_used = 0,
                   !.regions = <<>>, !.mark = 0,
                   !.op = "reset", !.p = NoPointer, !.n = @ + 1]
    /\ UNCHANGED <<T, ref, last, tablet, interned, weave, cord, ovars, ivars>>

ArenaNext ==
    \/ \E size \in ArenaSizes, mem_ok \in BOOLEAN : ArenaAlloc(size, mem_ok)
    \/ ArenaTempBegin
    \/ ArenaTempEnd
    \/ ArenaReset

SpecArena == ArenaInit /\ [][ArenaNext]_avars

\* The chunk of the list at the address id
ChunkAt(a, id) == a.chunks[CHOOSE i \in 1..Len(a.chunks) : a.chunks[i].id = id]

(***************************************************************************)
(* C21: arena allocations are disjoint.  In every state every chunk has    *)
(* used <= capacity, and every region returned by arena_alloc (size > 0)   *)
(* since the last reset lies inside one chunk of the list, starts at a     *)
(* multiple of the pointer alignment and overlaps no other such region.    *)
(***************************************************************************)
C21_DisjointAllocations ==
    /\ \A i \in 1..Len(arena.a.chunks) :
          arena.a.chunks[i].used <= arena.a.chunks[i].capacity
    /\ \A i \in 1..Len(arena.regions) :
          LET r == arena.regions[i]
          IN /\ r.chunk \in ChunkIds(arena.a)
             /\ r.off % ARENA_DEFAULT_ALIGNMENT = 0
             /\ r.off + r.size <= ChunkAt(arena.a, r.chunk).capacity
             /\ \A j \in 1..(i - 1) :
                   LET q == arena.regions[j]
                   IN q.chunk = r.chunk =>
                         \/ q.off + q.size <= r.off
                         \/ r.off + r.size <= q.off

\* The step is a tempEnd that closes the scope opened by the last tempBegin
TempEndStep == arena'.op = "temp_end" /\ arena'.n = arena.n + 1

\* The counters of an arena that a temporary scope captures or that count
\* its chunks
ArenaCounters(a) ==
    [total_allocated |-> a.total_allocated, alloc_count |-> a.alloc_count,
     chunk_count |-> a.chunk_count, total_capacity |-> a.total_capacity]

(***************************************************************************)
(* C22: temporary scopes.  tempEnd after tempBegin and any number of       *)
(* allocations leaves the arena as it was at tempBegin: the same chunk     *)
(* list with the same used offsets, the same current chunk, the same       *)
(* counters, and the chunks created in between are freed.                  *)
(***************************************************************************)
C22_TempScopeRestores ==
    [][TempEndStep =>
          /\ arena'.a.chunks = arena.scope.a.chunks
          /\ arena'.a.current = arena.scope.a.current
          /\ ArenaCounters(arena'.a) = ArenaCounters(arena.scope.a)
          /\ arena'.live = arena.scope.live]_avars

\* What an allocation does to an arena, but for the addresses of its chunks
AllocOutcome(a, size, mem_ok) ==
    LET res == arena_alloc(a, size, mem_ok, NULL)
    IN [ret |-> res.p.ret, off |-> res.p.off, size |-> res.p.size,
        at |-> res.a.current,
        chunks |-> [i \in 1..Len(res.a.chunks) |->
                      [capacity |-> res.a.chunks[i].capacity,
                       used |-> res.a.chunks[i].used]],
        counters |-> ArenaCounters(res.a)]

(***************************************************************************)
(* C23: arena_reset.  After a reset there is exactly one chunk, the first, *)
(* with used = 0; current is the first chunk, chunk_count = 1,             *)
(* total_allocated = 0 and total_capacity is the first chunk's capacity;   *)
(* only that chunk is still allocated, and an allocation of any size gives *)
(* what it gives on a newly created arena of the same chunk size.          *)
(***************************************************************************)
C23_ResetLeavesFirstChunk ==
    arena.op = "reset" =>
        /\ Len(arena.a.chunks) = 1
        /\ arena.a.chunks[1].id = 1
        /\ arena.a.chunks[1].used = 0
        /\ arena.a.current = 1
        /\ arena.a.chunk_count = 1
        /\ arena.a.total_allocated = 0
        /\ arena.a.total_capacity = arena.a.chunks[1].capacity
        /\ arena.live = {1}
        /\ \A size \in ArenaSizes, mem_ok \in BOOLEAN :
              AllocOutcome(arena.a, size, mem_ok)
                = AllocOutcome(arena_create(arena.a.chunk_size, 1), size, mem_ok)

\* A reset of an arena that had grown to several chunks
C23_Witness ==
    /\ arena.op = "reset"
    /\ arena.next_id > 3
    /\ arena.n = MaxArenaOps

(***************************************************************************)
(* WTC: wtc_interpolate (weave.c).  A byte is a string of one character,   *)
(* a C string or a Weave's content a sequence of bytes; positions are      *)
(* indexes from 1 and end is Len + 1.  A Cord is the sequence of its       *)
(* chunks.  The allocations succeed.                                       *)
(***************************************************************************)
\* A lookup callback is the function from the names it knows to their
\* values; it returns NULL for every other name.  NullLookup: no callback
NullLookup == [null |-> TRUE]
LookupCall(lookup, name) ==
    IF name \in DOMAIN lookup THEN lookup[name] ELSE NullSeq

cord_new == <<>>

cord_append_len(c, s, len) ==
    IF len = 0 THEN c ELSE Append(c, SubSeq(s, 1, len))

cord_append(c, s) == IF s = NullSeq THEN c ELSE cord_append_len(c, s, Len(s))

cord_append_char(c, ch) == cord_append_len(c, <<ch>>, 1)

\* cord_to_weave: the content of the Weave made of the chunks
RECURSIVE cord_to_weave(_)
cord_to_weave(c) ==
    IF c = <<>> THEN <<>> ELSE c[1] \o cord_to_weave(Tail(c))

\* strstr(s, ":-"): the index of the first ":-" in s, 0 when there is none
strstr_colon_dash(s) ==
    LET at == { i \in 1..(Len(s) - 1) : s[i] = ":" /\ s[i + 1] = "-" }
    IN IF at = {} THEN 0 ELSE CHOOSE i \in at : \A j \in at : i <= j

\* The scan for the brace that closes "${": where p stops, and brace_depth
RECURSIVE wtc_scan_brace(_, _, _)
wtc_scan_brace(t, p, brace_depth) ==
    IF p < Len(t) + 1 /\ brace_depth > 0
    THEN LET depth == IF t[p] = "{" THEN brace_depth + 1
                      ELSE IF t[p] = "}" THEN brace_depth - 1
                      ELSE brace_depth
         IN wtc_scan_brace(t, IF depth > 0 THEN p + 1 ELSE p, depth)
    ELSE [p |-> p, brace_depth |-> brace_depth]

\* The while loop of wtc_interpolate from the position st.p on
RECURSIVE wtc_loop(_, _, _)
wtc_loop(t, lookup, st) ==
    LET end == Len(t) + 1
        p == st.p
    IN IF p >= end THEN st
       ELSE IF t[p] = "$" THEN
           LET flushed == IF p > st.chunk_start
                          THEN cord_append_len(st.c,
                                   SubSeq(t, st.chunk_start, p - 1),
                                   p - st.chunk_start)
                          ELSE st.c
               p1 == p + 1
           IN IF p1 >= end
              THEN [st EXCEPT !.p = p1, !.c = cord_append_char(flushed, "$")]
              ELSE IF t[p1] = "$"
              THEN wtc_loop(t, lookup,
                            [p |-> p1 + 1, chunk_start |-> p1 + 1,
                             c |-> cord_append_char(flushed, "$")])
              ELSE IF t[p1] = "{"
              THEN LET var_start == p1 + 1
                       scan == wtc_scan_brace(t, var_start, 1)
                   IN IF scan.brace_depth # 0
                      THEN wtc_loop(t, lookup,
                                    [p |-> scan.p, chunk_start |-> var_start,
                                     c |-> cord_append(flushed, <<"$", "{">>)])
                      ELSE
                      LET var_name == SubSeq(t, var_start, scan.p - 1)
                          colon_dash == strstr_colon_dash(var_name)
                          name == IF colon_dash # 0
                                  THEN SubSeq(var_name, 1, colon_dash - 1)
                                  ELSE var_name
                          default_val == IF colon_dash # 0
                                         THEN SubSeq(var_name, colon_dash + 2,
                                                     Len(var_name))
                                         ELSE NullSeq
                          value == LookupCall(lookup, name)
                          c2 == IF value # NullSeq THEN cord_append(flushed, value)
                                ELSE IF default_val # NullSeq
                                THEN cord_append(flushed, default_val)
                                ELSE flushed
                      IN wtc_loop(t, lookup,
                                  [p |-> scan.p + 1, chunk_start |-> scan.p + 1,
                                   c |-> c2])
              ELSE wtc_loop(t, lookup,
                            [p |-> p1, chunk_start |-> p1,
                             c |-> cord_append_char(flushed, "$")])
       ELSE wtc_loop(t, lookup, [st EXCEPT !.p = p + 1])

\* wtc_interpolate(template_str, lookup, ctx): the content of the result
wtc_interpolate(template_str, lookup) ==
    IF template_str = NullSeq THEN <<>>
    ELSE IF lookup = NullLookup THEN template_str
    ELSE LET st == wtc_loop(template_str, lookup,
                            [p |-> 1, chunk_start |-> 1, c |-> cord_new])
             c == IF st.p > st.chunk_start
                  THEN cord_append_len(st.c,
                           SubSeq(template_str, st.chunk_start, st.p - 1),
                           st.p - st.chunk_start)
                  ELSE st.c
         IN cord_to_weave(c)

(***************************************************************************)
(* A client that interpolates one template: the concatenation of up to     *)
(* MaxTokens pieces, with a callback that knows A or no name at all.       *)
(***************************************************************************)
MaxTokens == 3
WtcTokens ==
    { <<"$">>, <<"$", "{">>, <<"}">>, <<"x">>,
      <<"$", "{", "A", "}">>, <<"$", "{", "B", "}">>,
      <<"$", "{", "A", ":", "-", "d", "}">>,
      <<"$", "{", "B", ":", "-", "d", "}">> }

RECURSIVE WtcTemplatesOf(_)
WtcTemplatesOf(n) ==
    IF n = 0 THEN {<<>>}
    ELSE LET shorter == WtcTemplatesOf(n - 1)
         IN shorter \cup { t \o k : t \in shorter, k \in WtcTokens }

WtcTemplates == WtcTemplatesOf(MaxTokens)
WtcLookups == { [n \in {<<"A">>} |-> <<"v", "a">>], <<>> }

WtcIdle ==
    /\ T = NULL /\ ref = NULL /\ last = NULL /\ tablet = NULL
    /\ interned = NULL /\ weave = NULL /\ arena = NULL

WtcInit ==
    /\ OrdinalIdle
    /\ IniIdle
    /\ WtcIdle
    /\ \E t \in WtcTemplates, lookup \in WtcLookups :
          cord = [template |-> t, lookup |-> lookup, done |-> FALSE, out |-> <<>>]

\* result = wtc_interpolate(template, lookup, NULL)
WtcInterpolate ==
    /\ ~cord.done
    /\ cord' = [cord EXCEPT !.done = TRUE,
                            !.out = wtc_interpolate(cord.template, cord.lookup)]
    /\ UNCHANGED <<T, ref, last, tablet, interned, weave, arena, ovars, ivars>>

WtcNext == WtcInterpolate

SpecWtc == WtcInit /\ [][WtcNext]_avars

\* The index of the brace that closes the "${" at the head of s: the first
\* "}" before which the braces after "${" are balanced; 0 when there is none
ClosingBrace(s) ==
    LET Count(ch, i) == Cardinality({ j \in 3..(i - 1) : s[j] = ch })
        at == { i \in 3..Len(s) : s[i] = "}" /\ Count("{", i) = Count("}", i) }
    IN IF at = {} THEN 0 ELSE CHOOSE i \in at : \A j \in at : i <= j

\* The reference expansion of the template s, byte by byte.  An unclosed
\* "${" is copied through with all that follows it
RECURSIVE Expansion(_, _)
Expansion(s, lookup) ==
    IF s = <<>> THEN <<>>
    ELSE IF s[1] # "$" THEN <<s[1]>> \o Expansion(Tail(s), lookup)
    ELSE IF Len(s) = 1 THEN <<"$">>
    ELSE IF s[2] = "$" THEN <<"$">> \o Expansion(SubSeq(s, 3, Len(s)), lookup)
    ELSE IF s[2] = "{" THEN
        LET close == ClosingBrace(s)
            body == SubSeq(s, 3, close - 1)
            sep == strstr_colon_dash(body)
            name == IF sep = 0 THEN body ELSE SubSeq(body, 1, sep - 1)
            value == LookupCall(lookup, name)
        IN IF close = 0 THEN s
           ELSE (IF value # NullSeq THEN value
                 ELSE IF sep # 0 THEN SubSeq(body, sep + 2, Len(body))
                 ELSE <<>>)
                \o Expansion(SubSeq(s, close + 1, Len(s)), lookup)
    ELSE <<"$">> \o Expansion(Tail(s), lookup)

(***************************************************************************)
(* C24: the output of wtc_interpolate is the reference expansion of the    *)
(* template: literal bytes once and in order, "$$" as "$", "${NAME}" as    *)
(* the value looked up, "${NAME:-DEFAULT}" as the value or else DEFAULT,   *)
(* and an unclosed "${" or a "$" followed by neither "$" nor "{", also a   *)
(* "$" that is the last byte, copied through.                              *)
(***************************************************************************)
C24_InterpolateExpansion ==
    cord.done => cord.out = Expansion(cord.template, cord.lookup)

(***************************************************************************)
(* DAGGER: invariants of the slots, over the tables of SpecDaggerOps       *)
(***************************************************************************)
\* The slots of the table
Slots(tab) == 0..(tab.capacity - 1)

\* The distance of slot i from the slot home, along the probe sequence
ProbeDistance(tab, home, i) == (i - home + tab.capacity) % tab.capacity

(***************************************************************************)
(* C25: the Robin Hood invariant.  After every operation, for every key    *)
(* stored in a non-cuckoo slot, the linear probe from hash(K) & mask       *)
(* reaches the key's slot: every slot before it on the probe sequence is   *)
(* occupied and its PSL is not smaller than the probe count there.         *)
(***************************************************************************)
C25_RobinHood ==
    \A i \in Slots(T) :
        (T.entries[i].occupied /\ ~T.entries[i].in_cuckoo) =>
            LET home == dagger_slot(T, T.entries[i].hash_primary)
            IN \A d \in 0..(ProbeDistance(T, home, i) - 1) :
                  LET slot == T.entries[(home + d) % T.capacity]
                  IN slot.occupied /\ slot.psl >= d

(***************************************************************************)
(* C26: slot placement.  In every reachable table every occupied slot i    *)
(* with stored psl p has i = (hash_primary + p) & mask when in_cuckoo = 0  *)
(* and i = (hash_alternate + p) & mask when in_cuckoo = 1.                 *)
(***************************************************************************)
C26_SlotPlacement ==
    \A i \in Slots(T) :
        T.entries[i].occupied =>
            LET e == T.entries[i]
                h == IF e.in_cuckoo THEN e.hash_alternate ELSE e.hash_primary
            IN i = dagger_slot(T, h + e.psl)

(***************************************************************************)
(* C28: the cuckoo statistic.  After any sequence of set, remove, clear    *)
(* and resize, cuckoo_count is the number of occupied slots whose          *)
(* in_cuckoo flag is set.                                                  *)
(***************************************************************************)
C28_CuckooCount ==
    T.cuckoo_count =
        Cardinality({ i \in Slots(T) : T.entries[i].occupied /\ T.entries[i].in_cuckoo })


(***************************************************************************)
(* DAGGER: a table that is shrunk.  In a table of 2048 slots the client    *)
(* sets the far keys in order: the fill keys, the run keys, then FarY,     *)
(* which goes to its alternate slot behind the run.  At any moment it may  *)
(* stop and call dagger_resize(T, 1024), once or again.                    *)
(***************************************************************************)

\* The n-th key the client sets
ShrinkKeyAt(n) ==
    IF n <= NumFill THEN FarBase + n
    ELSE IF n <= NumFill + RunLen THEN RunBase + (n - NumFill - 1)
    ELSE FarY

ShrinkInit ==
    /\ OrdinalIdle
    /\ IniIdle
    /\ T = dagger_create(2048)
    /\ ref = [value |-> NoValue, next |-> 1]
    /\ last = [op |-> "none", key |-> NULL, r |-> DAGGER_OK, extras |-> 0]
    /\ tablet = IdleTablet
    /\ interned = IdleInterned /\ weave = NULL /\ arena = NULL /\ cord = NULL

\* dagger_set(T, key, 1, value, 1) of the next far key; the allocations
\* succeed
ShrinkSet(value) ==
    /\ ref.next <= FarCount
    /\ last.op # "resize"
    /\ \E res \in {dagger_set(T, ShrinkKeyAt(ref.next), 1, value, TRUE, TRUE, TRUE)} :
          /\ T' = res.T
          /\ ref' = [value |-> value, next |-> ref.next + 1]
          /\ last' = [last EXCEPT !.op = "set", !.key = ShrinkKeyAt(ref.next),
                                  !.r = res.r]
    /\ UNCHANGED <<tablet, interned, weave, arena, cord, ovars, ivars>>

\* dagger_resize(T, 1024), called by the client
ShrinkResize(mem_ok) ==
    /\ last.extras < MaxExtras
    /\ \E res \in {dagger_resize(T, 1024, mem_ok)} :
          /\ T' = res.T
          /\ last' = [last EXCEPT !.op = "resize", !.key = NULL, !.r = res.r,
                                  !.extras = @ + 1]
    /\ UNCHANGED <<ref, tablet, interned, weave, arena, cord, ovars, ivars>>

ShrinkNext ==
    \/ ShrinkSet(1)
    \/ \E mem_ok \in BOOLEAN : ShrinkResize(mem_ok)

SpecDaggerShrink == ShrinkInit /\ [][ShrinkNext]_dvars

\* The step is a direct dagger_resize that returned an error
ResizeFailed ==
    /\ last'.op = "resize"
    /\ last'.extras = last.extras + 1
    /\ last'.r # DAGGER_OK

(***************************************************************************)
(* C27: a failed resize restores the table.  When dagger_resize returns an *)
(* error, because the new array could not be allocated or because a        *)
(* re-insertion failed, the table is as it was before the call: the same   *)
(* entries, capacity, mask, count and cuckoo_count.                        *)
(***************************************************************************)
C27_FailedResizeRestores ==
    [][ResizeFailed =>
          /\ T'.entries = T.entries
          /\ T'.capacity = T.capacity
          /\ T'.mask = T.mask
          /\ T'.count = T.count
          /\ T'.cuckoo_count = T.cuckoo_count]_dvars


(***************************************************************************)
(* DAGGER: the life of a table with a value destructor.  The client sets   *)
(* the destructor, inserts the keys 1, 2, ... of primary slot 0 in order,  *)
(* each with a value of its own, and between them makes up to MaxExtras    *)
(* other calls: a set of a key it set before, a remove, a clear, a direct  *)
(* resize, or a set whose allocation fails.  At any moment it ends with    *)
(* dagger_destroy.                                                         *)
(***************************************************************************)
LifeKeys == 1..(NumFill + 1)

LifeInit ==
    /\ OrdinalIdle
    /\ IniIdle
    /\ T = dagger_set_value_destroy(dagger_create(32), TRUE)
    /\ ref = [stored |-> {}, next |-> 1, value |-> 1]
    /\ last = [op |-> "none", key |-> NULL, r |-> DAGGER_OK, extras |-> 0]
    /\ tablet = IdleTablet
    /\ interned = IdleInterned /\ weave = NULL /\ arena = NULL /\ cord = NULL

\* The table has not been destroyed
Alive == last.op # "destroy"

\* dagger_set(T, key, 1, value, replace) with a value that no call passed
\* before; mem_ok: the allocations succeed
LifeSet(key, replace, mem_ok) ==
    /\ Alive
    /\ IF key = ref.next /\ mem_ok THEN replace
       ELSE /\ last.extras < MaxExtras
            /\ IF mem_ok THEN key \in OpsExtraKeys /\ key < ref.next
               ELSE key = ref.next /\ replace
    /\ \E res \in {dagger_set(T, key, KeyLen(key), ref.value, replace, mem_ok, mem_ok)} :
          /\ T' = res.T
          /\ ref' = [stored |-> IF res.r = DAGGER_OK
                                THEN ref.stored \cup {ref.value} ELSE ref.stored,
                     next |-> IF key = ref.next /\ res.r = DAGGER_OK
                              THEN ref.next + 1 ELSE ref.next,
                     value |-> ref.value + 1]
          /\ last' = [op |-> "set", key |-> key, r |-> res.r,
                      extras |-> IF key = ref.next /\ mem_ok
                                 THEN last.extras ELSE last.extras + 1]
    /\ UNCHANGED <<tablet, interned, weave, arena, cord, ovars, ivars>>

\* dagger_remove(T, key, 1)
LifeRemove(key) ==
    /\ Alive
    /\ last.extras < MaxExtras
    /\ key \in OpsExtraKeys /\ key < ref.next
    /\ \E res \in {dagger_remove(T, key, KeyLen(key))} :
          /\ T' = res.T
          /\ last' = [op |-> "remove", key |-> key, r |-> res.r,
                      extras |-> last.extras + 1]
    /\ UNCHANGED <<ref, tablet, interned, weave, arena, cord, ovars, ivars>>

\* dagger_clear(T)
LifeClear ==
    /\ Alive
    /\ last.extras < MaxExtras
    /\ T' = dagger_clear(T)
    /\ last' = [op |-> "clear", key |-> NULL, r |-> DAGGER_OK,
                extras |-> last.extras + 1]
    /\ UNCHANGED <<ref, tablet, interned, weave, arena, cord, ovars, ivars>>

\* dagger_resize(T, new_capacity), called by the client
LifeResize(new_capacity, mem_ok) ==
    /\ Alive
    /\ last.extras < MaxExtras
    /\ \E res \in {dagger_resize(T, new_capacity, mem_ok)} :
          /\ T' = res.T
          /\ last' = [op |-> "resize", key |-> NULL, r |-> res.r,
                      extras |-> last.extras + 1]
    /\ UNCHANGED <<ref, tablet, interned, weave, arena, cord, ovars, ivars>>

\* dagger_destroy(T)
LifeDestroy ==
    /\ Alive
    /\ T' = dagger_destroy(T)
    /\ last' = [last EXCEPT !.op = "destroy", !.key = NULL, !.r = DAGGER_OK]
    /\ UNCHANGED <<ref, tablet, interned, weave, arena, cord, ovars, ivars>>

LifeNext ==
    \/ \E key \in LifeKeys, replace \in BOOLEAN, mem_ok \in BOOLEAN :
            LifeSet(key, replace, mem_ok)
    \/ \E key \in LifeKeys : LifeRemove(key)
    \/ LifeClear
    \/ \E new_capacity \in OpsCapacities, mem_ok \in BOOLEAN :
            LifeResize(new_capacity, mem_ok)
    \/ LifeDestroy

SpecDaggerLife == LifeInit /\ [][LifeNext]_dvars

\* The number of calls of the destructor with value
DestroyCalls(tab, value) ==
    Cardinality({ i \in 1..Len(tab.destroyed) : tab.destroyed[i] = value })

(***************************************************************************)
(* C29: destructor discipline.  With a value destructor set, no value that *)
(* a successful dagger_set stored is passed to the destructor twice, and   *)
(* once the table is destroyed every such value has been passed to it      *)
(* exactly once, whatever sets, removes, resizes and clears came before.   *)
(***************************************************************************)
C29_DestructorDiscipline ==
    /\ \A value \in ref.stored : DestroyCalls(T, value) <= 1
    /\ last.op = "destroy" =>
           \A value \in ref.stored : DestroyCalls(T, value) = 1


\* The targets on the current DFS path: those of the build_target calls in
\* progress that have passed the cycle and visited tests
OnPath == { stack[d].idx : d \in { e \in 1..Len(stack) : stack[e].idx # NULL } }

ExecutionsOf(idx) == { k \in 1..Len(executed) : executed[k].idx = idx }

(***************************************************************************)
(* C31: at most once per run.  Within one ordinal_run each target's        *)
(* command is executed at most once, also when the target is reached       *)
(* through several dependency paths, with keep_going set or unset.         *)
(***************************************************************************)
C31_AtMostOncePerRun ==
    \A idx \in TargetIds : Cardinality(ExecutionsOf(idx)) <= 1

\* the diamond A -> B -> C, A -> C: C's command ran once under B, and the
\* second call for C, made by A, returned without running it
C31_Witness ==
    /\ RunDone
    /\ ord.targets[1].deps = <<"B", "C">> /\ ord.targets[2].deps = <<"C">>
    /\ Len(executed) = 3
    /\ executed[1].idx = 3 /\ executed[2].idx = 2 /\ executed[3].idx = 1


\* The resolved dependencies of target idx that name a target
TargetDeps(idx) ==
    { target_map_get(ord.targets[idx].resolved_deps[i]) :
         i \in { j \in 1..Len(ord.targets[idx].resolved_deps) :
                    target_map_get(ord.targets[idx].resolved_deps[j]) # NULL } }

\* The step takes target idx's needs_rebuild decision (and, if it must be
\* rebuilt, executes its command)
Decides(idx) == decided[idx] = "none" /\ decided'[idx] # "none"

(***************************************************************************)
(* C32: dependencies first.  When a target's needs_rebuild decision is     *)
(* taken and its command executed, build_target has returned for each of   *)
(* its resolved dependencies that names a target, and the dependency's     *)
(* status for the run is final: it has been decided itself and no call for *)
(* it is in progress.                                                      *)
(***************************************************************************)
C32_DependenciesFirst ==
    [][\A idx \in TargetIds :
          Decides(idx) =>
              \A d \in TargetDeps(idx) : decided[d] # "none" /\ d \notin OnPath]_avars


\* The targets processed in the run: build_target marked them visited
Processed == { i \in TargetIds : ord.targets[i].visited }

(***************************************************************************)
(* C33: result bookkeeping.  After ordinal_run has returned, targets_total *)
(* is the number of targets processed in the run and is the sum of         *)
(* targets_rebuilt, targets_up_to_date, targets_failed and                 *)
(* targets_skipped, and every processed target has a status other than     *)
(* PENDING.                                                                *)
(***************************************************************************)
C33_ResultBookkeeping ==
    RunDone =>
        /\ ord.result.targets_total = Cardinality(Processed)
        /\ ord.result.targets_total =
               ord.result.targets_rebuilt + ord.result.targets_up_to_date
                   + ord.result.targets_failed + ord.result.targets_skipped
        /\ \A i \in Processed : ord.targets[i].status # ORDINAL_STATUS_PENDING


(***************************************************************************)
(* ZORYA-INI: loads of typed lines and the setters (SpecIniTyped)          *)
(***************************************************************************)
\* a line key:hint = value
TKV(key, hint, value) == [kind |-> "kv", key |-> key, value |-> value, hint |-> hint]

h_int == <<"i", "n", "t">>
h_float == <<"f", "l", "o", "a", "t">>
h_bool == <<"b", "o", "o", "l">>
h_str_array == <<"s", "t", "r", "[", "]">>

v_12 == <<"1", "2">>
v_1_5 == <<"1", ".", "5">>
v_yes == <<"Y", "e", "s">>
v_pipe == <<"1", " ", "|", " ", "2">>
v_p == <<"p">>

\* Buffers of a typed key n, after an optional plain key x that n may
\* refer to
TypedBuffers ==
    { Opt(x # NullSeq, << KV(<<"x">>, x) >>) \o << TKV(<<"n">>, hint, value) >> :
      x \in {NullSeq, <<"7">>, v_pipe},
      hint \in {h_int, h_float, h_bool, h_str_array},
      value \in {v_12, v_1_5, v_yes, v_pipe, v_p, Ref(<<"x">>)} }

SetKeys == { <<"x">>, <<"S", ".", "l">> }
SetValues == { <<"7">>, Ref(<<"x">>) }
ArrayKeys == { <<"l">> }
ArrayLists == { <<v_p>>, <<v_p, <<"q">>>>, <<v_p, <<"q", " ", "r">>, v_12>> }

MaxTypedLoads == 1

NoArray == [key |-> NullSeq, values |-> <<>>]

\* strrchr(str, c): the index of the last c, 0 for NULL
strrchr(str, c) ==
    IF HasChar(str, c)
    THEN CHOOSE i \in 1..Len(str) :
            str[i] = c /\ \A j \in (i + 1)..Len(str) : str[j] # c
    ELSE 0

\* zorya_ini_set: the table after add_entry of the key's section and key
\* parts with the hint ZORYA_INI_TYPE_STRING
zorya_ini_set(entries, key, value) ==
    LET dot == strrchr(key, ".")
        section == IF dot = 0 THEN <<>> ELSE SubSeq(key, 1, dot - 1)
        key_part == SubSeq(key, dot + 1, Len(key))
    IN add_entry(entries, section, key_part,
                 IF value = NullSeq THEN <<>> ELSE value)

\* zorya_ini_set_array's buffer: the values from the i-th on, " | " between them
RECURSIVE join_pipes(_, _)
join_pipes(values, i) ==
    IF i > Len(values) THEN <<>>
    ELSE (IF values[i] = NullSeq THEN <<>> ELSE values[i])
         \o (IF i < Len(values) THEN <<" ", "|", " ">> ELSE <<>>)
         \o join_pipes(values, i + 1)

\* zorya_ini_set_array
zorya_ini_set_array(entries, key, values) ==
    IF Len(values) = 0 THEN zorya_ini_set(entries, key, <<>>)
    ELSE zorya_ini_set(entries, key, join_pipes(values, 1))

\* zorya_ini_get_array: the items and the count it returns, NullSeq for NULL
zorya_ini_get_array(entries, key) ==
    LET i == entry_slot(entries, key)
    IN IF i = 0 THEN [items |-> NullSeq, count |-> 0]
       ELSE IF ~entries[i].parsed.is_array THEN [items |-> NullSeq, count |-> 0]
       ELSE [items |-> entries[i].parsed.v.items,
             count |-> entries[i].parsed.v.count]

TypedInit ==
    /\ ini = [state |-> "new", entries |-> <<>>, slot |-> 0, err |-> ZORYA_INI_OK]
    /\ icalls = <<>>
    /\ ighost = [loads |-> 0, deep |-> FALSE, array |-> NoArray]
    /\ T = NULL /\ ref = NULL /\ last = NULL /\ tablet = NULL /\ interned = NULL /\ weave = NULL /\ arena = NULL /\ cord = NULL
    /\ OrdinalIdle

\* no call on the object is in progress
IniAtRest == ini.state \in {"new", "loaded"}

\* zorya_ini_load_buffer(ini, lines) up to resolve_all_interpolations
TypedLoadBuffer(lines) ==
    /\ IniAtRest /\ ighost.loads < MaxTypedLoads
    /\ ini' = [state |-> "resolving",
               entries |-> parse_lines(lines, 1, <<>>, ini.entries),
               slot |-> 0, err |-> ZORYA_INI_OK]
    /\ ighost' = [ighost EXCEPT !.loads = @ + 1, !.array = NoArray]
    /\ UNCHANGED <<icalls, dtvars, ovars>>

\* zorya_ini_set(ini, key, value)
IniSet(key, value) ==
    /\ IniAtRest
    /\ ini' = [ini EXCEPT !.entries = zorya_ini_set(@, key, value)]
    /\ ighost' = [ighost EXCEPT !.array = NoArray]
    /\ UNCHANGED <<icalls, dtvars, ovars>>

\* zorya_ini_set_array(ini, key, values, count)
IniSetArray(key, values) ==
    /\ IniAtRest
    /\ ini' = [ini EXCEPT !.entries = zorya_ini_set_array(@, key, values)]
    /\ ighost' = [ighost EXCEPT !.array = [key |-> key, values |-> values]]
    /\ UNCHANGED <<icalls, dtvars, ovars>>

TypedNext ==
    \/ \E lines \in TypedBuffers : TypedLoadBuffer(lines)
    \/ \E key \in SetKeys, value \in SetValues : IniSet(key, value)
    \/ \E key \in ArrayKeys, values \in ArrayLists : IniSetArray(key, values)
    \/ ResolveAllNext
    \/ ResolveStringStep
    \/ ResolveStringReturn

SpecIniTyped == TypedInit /\ [][TypedNext]_avars

\* C34: whenever no call on the object is in progress, every stored entry
\* has a resolved value if and only if its raw value contains a `$`.
C34_ResolvedIffDollar ==
    IniAtRest =>
        \A i \in 1..Len(ini.entries) :
            (ini.entries[i].resolved_value # NullSeq)
                <=> HasChar(weave_cstr(ini.entries[i].raw_value), "$")


TypedHints ==
    { ZORYA_INI_TYPE_INT, ZORYA_INI_TYPE_FLOAT, ZORYA_INI_TYPE_BOOL,
      ZORYA_INI_TYPE_ARRAY }

\* C35: in every state, right after parsing as well as during and after the
\* interpolation pass, every stored entry whose hint is integer, float, bool
\* or array has a parsed value of that same variant.
C35_ParsedMatchesHint ==
    \A i \in 1..Len(ini.entries) :
        ini.entries[i].hint \in TypedHints
            => ini.entries[i].parsed.type = ini.entries[i].hint

\* C36: right after zorya_ini_set_array(key, values) of a non-empty list of
\* non-empty strings without `|` and without blanks at their ends,
\* zorya_ini_get_array(key) returns the same strings in the same order with
\* the same count.
C36_ArrayRoundTrip ==
    ighost.array # NoArray
        => zorya_ini_get_array(ini.entries, ighost.array.key)
               = [items |-> ighost.array.values,
                  count |-> Len(ighost.array.values)]


(***************************************************************************)
(* C37: interning the empty string.  Every tablet_intern_len(T, s, 0) with *)
(* memory available returns a non-NULL Weave, the one that the first such  *)
(* call returned; the first call adds one to tablet_count and takes one    *)
(* arena allocation, later calls leave the tablet as it is.                *)
(***************************************************************************)
C37_InternEmptyString ==
    [][TabletIntern(EmptyKey, TRUE)
         => /\ last'.value # NULL
            /\ IF interned[EmptyKey] = NULL
               THEN /\ tablet'.count = tablet.count + 1
                    /\ tablet'.alloc_count = tablet.alloc_count + 1
               ELSE /\ last'.value = interned[EmptyKey]
                    /\ tablet' = tablet]_tvars


(***************************************************************************)
(* Cord with its chunk array (weave.c): chunks holds the bytes of the      *)
(* chunks written so far, chunk_cap the number of CordChunk the array was  *)
(* allocated for.  A chunk written at an index >= chunk_cap is a write     *)
(* outside the allocation: outside records it.                             *)
(***************************************************************************)
CORD_INITIAL_CHUNKS == 8
MaxCordChunks == 6
MaxOtherChunks == 2

CordCaps == {0, 1, 2, 3, CORD_INITIAL_CHUNKS}
CordStrings == { <<"a">>, <<"b", "c">> }

\* cord_with_cap(chunk_cap): NULL when one of the two allocations fails
\* (malloc(0) of a chunk_cap of 0 may return NULL as well)
cord_with_cap(chunk_cap, malloc_ok) ==
    IF ~malloc_ok THEN NULL
    ELSE [chunks |-> <<>>, total_len |-> 0, chunk_count |-> 0,
          chunk_cap |-> chunk_cap, outside |-> FALSE]

\* cord_ensure_cap: the Cord and the pointer returned (ok: c, not NULL)
cord_ensure_cap(c, realloc_ok) ==
    IF c.chunk_count < c.chunk_cap THEN [c |-> c, ok |-> TRUE]
    ELSE LET new_cap == (c.chunk_cap * 3) \div 2
         IN IF ~realloc_ok THEN [c |-> c, ok |-> FALSE]
            ELSE [c |-> [c EXCEPT !.chunk_cap = new_cap], ok |-> TRUE]

\* cord_append_len(c, s, len) on the Cord with its chunk array
cord_append_len_chunk(c, s, len, realloc_ok, malloc_ok) ==
    IF s = NullSeq \/ len = 0 THEN [c |-> c, ok |-> TRUE]
    ELSE LET ensured == cord_ensure_cap(c, realloc_ok)
             c1 == ensured.c
         IN IF ~ensured.ok THEN ensured
            ELSE IF ~malloc_ok THEN [c |-> c1, ok |-> FALSE]
            ELSE [c |-> [c1 EXCEPT
                           !.chunks = Append(@, SubSeq(s, 1, len)),
                           !.outside = @ \/ c1.chunk_count >= c1.chunk_cap,
                           !.chunk_count = @ + 1,
                           !.total_len = @ + len],
                  ok |-> TRUE]

\* the value of c when cord_with_cap has returned NULL
NoCord == [chunks |-> <<>>, total_len |-> 0, chunk_count |-> 0, chunk_cap |-> 0,
           outside |-> FALSE]

\* the cord_append_cord call in progress or returned last: i is the loop's
\* index; n0, len0 are other's chunk_count and total_len and count0, total0
\* those of c when the call started; done: the call has returned c
NoCall == [active |-> FALSE, done |-> FALSE, self |-> FALSE, i |-> 0, n0 |-> 0,
           len0 |-> 0, count0 |-> 0, total0 |-> 0]

CordIdle ==
    /\ T = NULL /\ ref = NULL /\ last = NULL /\ tablet = NULL
    /\ interned = NULL /\ weave = NULL /\ arena = NULL

\* c = cord_with_cap(chunk_cap) or cord_new(); other = cord_new()
CordInit ==
    /\ OrdinalIdle
    /\ IniIdle
    /\ CordIdle
    /\ \E chunk_cap \in CordCaps, malloc_ok \in BOOLEAN :
          cord = [created |-> malloc_ok,
                  c |-> IF malloc_ok THEN cord_with_cap(chunk_cap, malloc_ok)
                        ELSE NoCord,
                  other |-> cord_with_cap(CORD_INITIAL_CHUNKS, TRUE),
                  call |-> NoCall, r |-> "none"]

\* the Cords can be used: c was created, no chunk was written outside the
\* array, and no cord_append_cord is in progress
CordUsable ==
    /\ cord.created /\ cord.r # "crash"
    /\ ~cord.c.outside
    /\ ~cord.call.active

\* the memory left allows one more chunk
CordMemory(c) == c.chunk_count < MaxCordChunks

\* the outcomes of an append: as computed, or, after a write outside the
\* chunk array, also the end of the process
AppendOutcomes(res) ==
    IF res.c.outside THEN {"stored", "crash"} ELSE {"stored"}

\* cord_append_len(c, s, len)
CordAppendLen(s, realloc_ok, malloc_ok) ==
    /\ CordUsable
    /\ malloc_ok => CordMemory(cord.c)
    /\ \E res \in {cord_append_len_chunk(cord.c, s, Len(s), realloc_ok, malloc_ok)} :
       \E outcome \in AppendOutcomes(res) :
          cord' = [cord EXCEPT !.c = res.c,
                               !.call = NoCall,
                               !.r = IF outcome = "crash" THEN "crash"
                                     ELSE IF res.ok THEN "c" ELSE "NULL"]
    /\ UNCHANGED <<T, ref, last, tablet, interned, weave, arena, ovars, ivars>>

\* cord_append_len(other, s, len)
CordAppendOther(s) ==
    /\ CordUsable
    /\ cord.other.chunk_count < MaxOtherChunks
    /\ cord' = [cord EXCEPT
                  !.other = cord_append_len_chunk(@, s, Len(s), TRUE, TRUE).c,
                  !.call = NoCall, !.r = "none"]
    /\ UNCHANGED <<T, ref, last, tablet, interned, weave, arena, ovars, ivars>>

\* the Cord that cord_append_cord reads: c itself or other
CallOther == IF cord.call.self THEN cord.c ELSE cord.other

\* cord_append_cord(c, other) is called, with other == c when self
CordAppendCordCall(self) ==
    /\ CordUsable
    /\ cord' = [cord EXCEPT
                  !.call = [active |-> TRUE, done |-> FALSE, self |-> self, i |-> 0,
                            n0 |-> IF self THEN cord.c.chunk_count
                                   ELSE cord.other.chunk_count,
                            len0 |-> IF self THEN cord.c.total_len
                                     ELSE cord.other.total_len,
                            count0 |-> cord.c.chunk_count,
                            total0 |-> cord.c.total_len],
                  !.r = "none"]
    /\ UNCHANGED <<T, ref, last, tablet, interned, weave, arena, ovars, ivars>>

\* cord_append_cord, one turn of its loop: the test i < other->chunk_count
\* and the cord_append_len of chunk i, or the return after the loop
CordAppendCordStep(realloc_ok, malloc_ok) ==
    /\ cord.call.active
    /\ IF cord.call.i < CallOther.chunk_count
       THEN /\ malloc_ok => CordMemory(cord.c)
            /\ \E res \in {cord_append_len_chunk(cord.c, CallOther.chunks[cord.call.i + 1],
                                                 Len(CallOther.chunks[cord.call.i + 1]),
                                                 realloc_ok, malloc_ok)} :
               \E outcome \in AppendOutcomes(res) :
                  cord' = [cord EXCEPT
                             !.c = res.c,
                             !.call.i = @ + 1,
                             !.call.active = res.ok /\ outcome # "crash"
                                                /\ ~res.c.outside,
                             !.r = IF outcome = "crash" THEN "crash"
                                   ELSE IF res.ok THEN "none" ELSE "NULL"]
       ELSE /\ realloc_ok /\ malloc_ok
            /\ cord' = [cord EXCEPT !.call.active = FALSE, !.call.done = TRUE,
                                    !.r = "c"]
    /\ UNCHANGED <<T, ref, last, tablet, interned, weave, arena, ovars, ivars>>

CordNext ==
    \/ \E s \in CordStrings, realloc_ok \in BOOLEAN, malloc_ok \in BOOLEAN :
          CordAppendLen(s, realloc_ok, malloc_ok)
    \/ \E s \in CordStrings : CordAppendOther(s)
    \/ \E self \in BOOLEAN : CordAppendCordCall(self)
    \/ \E realloc_ok \in BOOLEAN, malloc_ok \in BOOLEAN :
          CordAppendCordStep(realloc_ok, malloc_ok)

SpecCord == CordInit /\ [][CordNext]_avars

\* C38: in every state of a Cord created by cord_new or cord_with_cap(n),
\* n >= 0, chunk_count <= chunk_cap and no chunk has been written outside
\* the chunk array.
C38_CordBounds ==
    cord.created
        => /\ cord.c.chunk_count <= cord.c.chunk_cap
           /\ ~cord.c.outside


\* C39: cord_append_cord(c, other), also with other == c, ends its loop
\* after as many turns as other held chunks when the call started, and when
\* it has returned c, c holds that many chunks more and its total length has
\* grown by the total length other had when the call started.
C39_AppendCord ==
    /\ cord.call.active => cord.call.i <= cord.call.n0
    /\ cord.call.done
          => /\ cord.c.chunk_count = cord.call.count0 + cord.call.n0
             /\ cord.c.total_len = cord.call.total0 + cord.call.len0


\* The sum of used over the chunks of the list, as a size_t
RECURSIVE SumUsed(_)
SumUsed(chunks) ==
    IF chunks = <<>> THEN 0
    ELSE (Head(chunks).used + SumUsed(Tail(chunks))) % SIZE_MOD

\* The step is an arena_alloc call
AllocStep == arena'.op = "alloc" /\ arena'.n = arena.n + 1

(***************************************************************************)
(* C40: arena counters.  Every arena_alloc call adds one to alloc_count    *)
(* exactly when it returns non-NULL, and adds to total_allocated what it   *)
(* adds to the sum of used over the chunks, whether it is served from the  *)
(* current chunk or from a new one: after any sequence of calls since the  *)
(* creation or the last reset, alloc_count is the number of calls that     *)
(* returned non-NULL and total_allocated the sum of used over all chunks.  *)
(***************************************************************************)
C40_ArenaCounters ==
    [][AllocStep =>
          /\ arena'.a.alloc_count
                = arena.a.alloc_count + (IF arena'.p.ret = "ptr" THEN 1 ELSE 0)
          /\ (arena'.a.total_allocated + SumUsed(arena.a.chunks)) % SIZE_MOD
                = (arena.a.total_allocated + SumUsed(arena'.a.chunks)) % SIZE_MOD]_avars

====
